---- MODULE Spec2Model ----
(***************************************************************************)
(* Model of the FlipHTML5 offline mirroring engine                         *)
(* (src/unnamed/part_002, "fliphtml5-downloader.js").                      *)
(*                                                                         *)
(* Layers, leaf first:                                                     *)
(*   - URL values, resolveUrl, getLocalPath (with the base64 query hash)   *)
(*   - rewriteUrls over documents made of reference tokens                 *)
(*   - fetchWithRetry / downloadAsset / downloadAssetsWithConcurrency      *)
(*   - downloadBookPages (the page prober)                                 *)
(*   - downloadFlipHTML5Book (one whole run; the program may be run again) *)
(***************************************************************************)
EXTENDS Integers, Sequences, FiniteSets, Bags, TLC

(***************************************************************************)
(* State.                                                                  *)
(***************************************************************************)
VARIABLES
    call, ret,          \* a call of a pure function and the values it returned
    disk,               \* the output directory
    faults,             \* transient network failures the origin may still produce
    nFetch,             \* network requests issued since the current run began
    assets,             \* the seed list downloadAssetsWithConcurrency was called with
    queue, inProgress, downloaded, results,  \* its local variables
    tasks,              \* the downloadAsset calls made, in admission order
    spc, raceSettled,   \* position of the scheduler loop; Promise.race settled
    site,               \* the origin's page images
    pageNum, patIdx, downloadedPages, lastProbe, ppc,   \* downloadBookPages
    bookUrl,            \* the command line's URL argument
    phase, runNo, prevResults,  \* position of the run, its number, the results
                                \* of the run before it
    ftries, step, configAssets, \* failed attempts of the current sequential
                                \* fetch; downloadFlipbookConfigs' locals
    stats               \* the report's counts

(***************************************************************************)
(* Values.  A URL string is modelled by its parsed form (what `new URL`    *)
(* yields): host, directory segments, file name, extension, query bytes    *)
(* and fragment.  A file name is a stem plus the list of "_<hash>" tags    *)
(* that getLocalPath has appended to it.  NullV is JavaScript's null.      *)
(***************************************************************************)
NullV == [k |-> "null"]

Name(stem) == [stem |-> stem, tags |-> << >>]

NoName == Name("")

Url(host, dir, base, ext, query, frag) ==
    [k |-> "url", host |-> host, dir |-> dir, base |-> base, ext |-> ext,
     query |-> query, frag |-> frag]

LocalPath(dir, base, ext) ==
    [k |-> "path", dir |-> dir, base |-> base, ext |-> ext]

\* A reference as it is written in a document: form is one of
\* "abs" (scheme and host given), "root" (/a/b), "rel" (a/b), "data" (data:
\* URI), "frag" (#anchor), "bad" (text that `new URL` rejects) and "badhttp"
\* (text starting with "http" that `new URL` rejects, as "http://[x/a.png").
Ref(form, host, dir, base, ext, query, frag) ==
    [k |-> "ref", form |-> form, host |-> host, dir |-> dir, base |-> base,
     ext |-> ext, query |-> query, frag |-> frag]

IsUrl(v) == v.k = "url"

IsNull(v) == v.k = "null"

\* A string that is used as a URL as it is written, without having gone
\* through `new URL` (assets.add(assetPath), line 508; a JSON string value).
RawText(ref) == [k |-> "text", ref |-> ref]

\* What fetchUrl asks the origin for: urlObj.pathname + urlObj.search (line
\* 89); the fragment is not sent.
RequestOf(u) == IF IsUrl(u) THEN [u EXCEPT !.frag = ""] ELSE u

Front(s) == SubSeq(s, 1, Len(s) - 1)

Last(s) == s[Len(s)]

\* urlObj.search: "?" followed by the query, or "" when the query is empty.
Search(u) == IF u.query = << >> THEN << >> ELSE <<63>> \o u.query

(***************************************************************************)
(* Buffer.from(s).toString('base64'): three bytes give four sextets, the   *)
(* tail is padded with "=" (written 64 here); 62 is "+", 63 is "/".        *)
(***************************************************************************)
RECURSIVE Base64(_)
Base64(s) ==
    IF s = << >> THEN << >>
    ELSE IF Len(s) = 1
         THEN << s[1] \div 4, (s[1] % 4) * 16, 64, 64 >>
    ELSE IF Len(s) = 2
         THEN << s[1] \div 4, (s[1] % 4) * 16 + (s[2] \div 16),
                 (s[2] % 16) * 4, 64 >>
    ELSE << s[1] \div 4, (s[1] % 4) * 16 + (s[2] \div 16),
            (s[2] % 16) * 4 + (s[3] \div 64), s[3] % 64 >>
         \o Base64(SubSeq(s, 4, Len(s)))

\* .slice(0, 8)
Slice8(s) == SubSeq(s, 1, IF Len(s) < 8 THEN Len(s) ELSE 8)

\* .replace(/[/+=]/g, '_'): "_" is written 65.
ReplaceUnsafe(s) == [i \in 1..Len(s) |-> IF s[i] \in {62, 63, 64} THEN 65 ELSE s[i]]

QueryHash(search) == ReplaceUnsafe(Slice8(Base64(search)))

(***************************************************************************)
(* getLocalPath (part_002:266-294).                                        *)
(***************************************************************************)
\* path.basename / path.dirname ignore a trailing slash: "a/b/" has the
\* base name "b" in the directory "a".
SplitForHash(dir, base) ==
    IF base = NoName /\ dir # << >>
    THEN [dir |-> Front(dir), base |-> Name(Last(dir))]
    ELSE [dir |-> dir, base |-> base]

HashedPath(u) ==
    LET sp == SplitForHash(u.dir, u.base)
    IN  LocalPath(sp.dir,
                  [stem |-> sp.base.stem,
                   tags |-> Append(sp.base.tags, QueryHash(Search(u)))],
                  u.ext)

SameHostPath(u) ==
    IF Search(u) # << >> THEN HashedPath(u) ELSE LocalPath(u.dir, u.base, u.ext)

ExternalPath(u) == LocalPath(<<"external", u.host>> \o u.dir, u.base, u.ext)

\* (variant: every URL is placed by its path, whatever its host)
getLocalPathAnyHost(assetUrl, baseUrl) ==
    IF ~IsUrl(assetUrl) \/ ~IsUrl(baseUrl) THEN NullV
    ELSE SameHostPath(assetUrl)

\* (variant: a path already taken in the output directory is avoided)
getLocalPathAvoidTaken(assetUrl, baseUrl) ==
    IF ~IsUrl(assetUrl) \/ ~IsUrl(baseUrl) THEN NullV
    ELSE LET p == IF assetUrl.host = baseUrl.host THEN SameHostPath(assetUrl)
                  ELSE ExternalPath(assetUrl)
         IN  IF p \in DOMAIN disk
             THEN [p EXCEPT !.base.tags = Append(@, <<"taken">>)]
             ELSE p

getLocalPath(assetUrl, baseUrl) ==
    IF ~IsUrl(assetUrl) \/ ~IsUrl(baseUrl) THEN NullV
    ELSE IF assetUrl.host = baseUrl.host THEN SameHostPath(assetUrl)
    ELSE ExternalPath(assetUrl)

\* `!localPath`: null, or the empty string (the path "/" of the site root).
IsEmptyPath(p) == p.k = "path" /\ p.dir = << >> /\ p.base = NoName /\ p.ext = ""

Falsy(p) == IsNull(p) \/ IsEmptyPath(p)

(***************************************************************************)
(* resolveUrl (part_002:251-261): new URL(reference, base).href            *)
(***************************************************************************)
resolveUrl(ref, baseUrl) ==
    IF ref.form \in {"data", "frag", "bad", "badhttp"} \/ ~IsUrl(baseUrl) THEN NullV
    ELSE IF ref.form = "abs"
         THEN Url(ref.host, ref.dir, ref.base, ref.ext, ref.query, ref.frag)
    ELSE IF ref.form = "root"
         THEN Url(baseUrl.host, ref.dir, ref.base, ref.ext, ref.query, ref.frag)
    ELSE IF ref.dir = << >> /\ ref.base = NoName /\ ref.ext = ""
         THEN Url(baseUrl.host, baseUrl.dir, baseUrl.base, baseUrl.ext,
                  ref.query, ref.frag)
    ELSE Url(baseUrl.host, baseUrl.dir \o ref.dir, ref.base, ref.ext,
             ref.query, ref.frag)

(***************************************************************************)
(* Documents.  A document is a sequence of tokens: plain text, an HTML     *)
(* attribute src= / href= / data-src= / data-original= holding a           *)
(* reference, a CSS url(...) holding a reference, a CSS @import, or a      *)
(* quoted string literal holding a reference.                              *)
(***************************************************************************)
Text(s) == [t |-> "text", tag |-> "", name |-> s, val |-> NullV]

Attr(name, ref) == [t |-> "attr", tag |-> "", name |-> name, val |-> ref]

\* An attribute of a <link> or <script> element.
TagAttr(tag, name, ref) == [t |-> "attr", tag |-> tag, name |-> name, val |-> ref]

CssUrl(quote, ref) == [t |-> "url", tag |-> "", name |-> quote, val |-> ref]

Import(ref) == [t |-> "import", tag |-> "", name |-> "", val |-> ref]

\* A double-quoted string literal of a script or of a JSON file.
Str(ref) == [t |-> "str", tag |-> "", name |-> "dq", val |-> ref]

\* The text `${localPath}` read back as a reference: a path without scheme,
\* host or leading slash is a relative reference.
AsRef(lp) == Ref("rel", "", lp.dir, lp.base, lp.ext, << >>, "")

(***************************************************************************)
(* rewriteUrls (part_002:308-337).                                         *)
(***************************************************************************)
RewriteHtmlToken(tok, baseUrl) ==
    LET absoluteUrl == resolveUrl(tok.val, baseUrl)
        localPath   == getLocalPath(absoluteUrl, baseUrl)
    IN  IF tok.t # "attr" THEN tok
        ELSE IF IsNull(absoluteUrl) THEN tok
        ELSE IF Falsy(localPath) THEN tok
        ELSE [tok EXCEPT !.val = AsRef(localPath)]

RewriteCssToken(tok, baseUrl) ==
    LET absoluteUrl == resolveUrl(tok.val, baseUrl)
        localPath   == getLocalPath(absoluteUrl, baseUrl)
    IN  IF tok.t # "url" THEN tok
        ELSE IF tok.val.form = "data" THEN tok
        ELSE IF IsNull(absoluteUrl) THEN tok
        ELSE IF Falsy(localPath) THEN tok
        ELSE CssUrl("dq", AsRef(localPath))

\* (variant: a reference that cannot be rewritten makes the pass give up)
rewriteUrlsFailClosed(content, baseUrl, isHtml) ==
    LET matched(tok) == IF isHtml THEN tok.t = "attr"
                        ELSE tok.t = "url" /\ tok.val.form # "data"
        fails(tok) == \/ IsNull(resolveUrl(tok.val, baseUrl))
                      \/ Falsy(getLocalPath(resolveUrl(tok.val, baseUrl), baseUrl))
    IN  IF \E i \in 1..Len(content) : matched(content[i]) /\ fails(content[i])
        THEN << >>
        ELSE [i \in 1..Len(content) |->
                IF isHtml THEN RewriteHtmlToken(content[i], baseUrl)
                          ELSE RewriteCssToken(content[i], baseUrl)]

rewriteUrls(content, baseUrl, isHtml) ==
    [i \in 1..Len(content) |->
        IF isHtml THEN RewriteHtmlToken(content[i], baseUrl)
                  ELSE RewriteCssToken(content[i], baseUrl)]

(***************************************************************************)
(* rewriteJsUrls (part_002:571-590): every absolute URL on the book's host *)
(* or on a fliphtml5.com host, with a non-empty path, is replaced by its   *)
(* LocalPath.  bookInfo is the record parseFlipHTML5Url returns.           *)
(***************************************************************************)
FlipHosts == {"fliphtml5.com", "online.fliphtml5.com", "cdn.fliphtml5.com"}

HasPathText(ref) ==
    ref.dir # << >> \/ ref.base # NoName \/ ref.ext # "" \/ ref.query # << >>
        \/ ref.frag # ""

RewriteJsToken(tok, bookInfo) ==
    LET match     == Url(tok.val.host, tok.val.dir, tok.val.base, tok.val.ext,
                         tok.val.query, tok.val.frag)
        localPath == getLocalPath(match, bookInfo.baseUrl)
    IN  IF tok.t = "text" THEN tok
        ELSE IF tok.val.form # "abs" THEN tok
        ELSE IF tok.val.host \notin FlipHosts \cup {bookInfo.host} THEN tok
        ELSE IF ~HasPathText(tok.val) THEN tok
        ELSE IF Falsy(localPath) THEN tok
        ELSE [tok EXCEPT !.val = AsRef(localPath)]

rewriteJsUrls(content, baseUrl, bookInfo) ==
    [i \in 1..Len(content) |-> RewriteJsToken(content[i], bookInfo)]

(***************************************************************************)
(* rewriteJsonUrls (part_002:595-631): a document that JSON.parse accepts  *)
(* is made of values: strings, other literals (numbers, true, false, null) *)
(* and containers (arrays, objects) of values.  Every string value that    *)
(* starts with http:// or https:// and has a LocalPath is replaced by it,   *)
(* at any depth.  Any other document is returned as it is.                 *)
(***************************************************************************)
\* A number, true, false or null.
Lit(s) == [t |-> "lit", tag |-> "", name |-> s, val |-> NullV]

\* An array or an object: its members, in order.
Arr(items) == [t |-> "arr", tag |-> "", name |-> "", val |-> items]

RECURSIVE IsJsonValue(_)
IsJsonValue(tok) ==
    \/ tok.t \in {"str", "lit"}
    \/ tok.t = "arr" /\ \A i \in 1..Len(tok.val) : IsJsonValue(tok.val[i])

IsJson(content) == \A i \in 1..Len(content) : IsJsonValue(content[i])

\* rewriteValue (lines 598-611)
RewriteJsonToken(tok, bookInfo) ==
    IF tok.t # "str" THEN tok
    ELSE IF tok.val.form \notin {"abs", "badhttp"} THEN tok
    ELSE LET value     == IF tok.val.form = "abs"
                          THEN Url(tok.val.host, tok.val.dir, tok.val.base,
                                   tok.val.ext, tok.val.query, tok.val.frag)
                          ELSE RawText(tok.val)
             localPath == getLocalPath(value, bookInfo.baseUrl)
         IN  IF Falsy(localPath) THEN tok
             ELSE [tok EXCEPT !.val = AsRef(localPath)]

\* (variant: the members of arrays and objects are not visited)
rewriteObjectShallow(tok, bookInfo) == RewriteJsonToken(tok, bookInfo)

\* rewriteObject (lines 613-624)
RECURSIVE rewriteObject(_, _)
rewriteObject(tok, bookInfo) ==
    IF tok.t = "arr"
    THEN [tok EXCEPT !.val = [i \in 1..Len(tok.val) |->
                                rewriteObject(tok.val[i], bookInfo)]]
    ELSE RewriteJsonToken(tok, bookInfo)

rewriteJsonUrls(content, baseUrl, bookInfo) ==
    IF IsJson(content)
    THEN [i \in 1..Len(content) |-> rewriteObject(content[i], bookInfo)]
    ELSE content

(***************************************************************************)
(* extractCssAssets (part_002:225-246): url(...) references that are not   *)
(* data URIs, then @import references, each through resolveUrl (which may  *)
(* give null), collected in a Set and returned in insertion order.         *)
(***************************************************************************)
AddUnique(acc, x) ==
    IF \E i \in 1..Len(acc) : acc[i] = x THEN acc ELSE Append(acc, x)

RECURSIVE CollectRefs(_, _, _, _)
CollectRefs(css, baseUrl, kind, acc) ==
    IF css = << >> THEN acc
    ELSE LET tok  == Head(css)
             take == tok.t = kind /\ (kind = "import" \/ tok.val.form # "data")
         IN  CollectRefs(Tail(css), baseUrl, kind,
                         IF take THEN AddUnique(acc, resolveUrl(tok.val, baseUrl))
                                 ELSE acc)

extractCssAssets(css, baseUrl) ==
    CollectRefs(css, baseUrl, "import", CollectRefs(css, baseUrl, "url", << >>))

(***************************************************************************)
(* extractAssets (part_002:153-220): ten scans of the page, in this order; *)
(* every match goes through resolveUrl and into a Set, null included.      *)
(***************************************************************************)
ImageExts == {"png", "jpg", "jpeg", "gif", "svg", "webp"}

FontExts == {"woff", "woff2", "ttf", "otf", "eot"}

AudioExts == {"mp3", "wav", "ogg", "m4a"}

VideoExts == {"mp4", "webm", "ogv"}

\* Stems and directory names that contain "config" or "book".
ConfigWords == {"config", "bookConfig", "book"}

Quoted(tok) ==
    tok.t \in {"attr", "str", "import"} \/ (tok.t = "url" /\ tok.name # "")

DoubleQuoted(tok) ==
    tok.t \in {"attr", "str", "import"} \/ (tok.t = "url" /\ tok.name = "dq")

HasRef(tok) == tok.t # "text"

\* The reference's text ends with its extension.
EndsWithExt(ref) == ref.query = << >> /\ ref.frag = ""

\* match[1].includes('/') || includes('config') || includes('book')
LooksLikeConfig(ref) ==
    \/ ref.form \in {"abs", "root"} \/ ref.dir # << >>
    \/ ref.base.stem \in ConfigWords

HtmlScanMatches(scan, tok) ==
    /\ HasRef(tok)
    /\ CASE scan = 1  -> tok.t = "attr" /\ tok.tag = "link" /\ tok.name = "href"
                           /\ tok.val.ext = "css"
         [] scan = 2  -> tok.t = "attr" /\ tok.tag = "script" /\ tok.name = "src"
                           /\ tok.val.ext = "js"
         [] scan = 3  -> tok.t = "attr" /\ tok.val.ext \in ImageExts \cup {"ico"}
         [] scan = 4  -> tok.t = "url" /\ tok.val.ext \in ImageExts
                           /\ EndsWithExt(tok.val)
         [] scan = 5  -> tok.t = "url" /\ tok.val.ext \in FontExts
                           /\ EndsWithExt(tok.val)
         [] scan = 6  -> Quoted(tok) /\ tok.val.ext = "json" /\ LooksLikeConfig(tok.val)
         [] scan = 7  -> Quoted(tok) /\ tok.val.ext = "xml"
         [] scan = 8  -> Quoted(tok) /\ tok.val.ext = "swf"
         [] scan = 9  -> Quoted(tok) /\ tok.val.ext \in AudioExts
         [] OTHER     -> Quoted(tok) /\ tok.val.ext \in VideoExts

\* The matches of one scan, each resolved, in document order.
ScanHtml(html, baseUrl, scan) ==
    LET found == SelectSeq(html, LAMBDA tok : HtmlScanMatches(scan, tok))
    IN  [i \in 1..Len(found) |-> resolveUrl(found[i].val, baseUrl)]

\* Array.from(new Set(list)): the first occurrence of every value, in order.
Dedupe(list) ==
    LET firsts == {i \in 1..Len(list) : \A j \in 1..(i - 1) : list[j] # list[i]}
    IN  [k \in 1..Cardinality(firsts) |->
            list[CHOOSE i \in firsts : Cardinality({j \in firsts : j < i}) = k - 1]]

extractAssets(html, baseUrl) ==
    Dedupe(ScanHtml(html, baseUrl, 1) \o ScanHtml(html, baseUrl, 2)
            \o ScanHtml(html, baseUrl, 3) \o ScanHtml(html, baseUrl, 4)
            \o ScanHtml(html, baseUrl, 5) \o ScanHtml(html, baseUrl, 6)
            \o ScanHtml(html, baseUrl, 7) \o ScanHtml(html, baseUrl, 8)
            \o ScanHtml(html, baseUrl, 9) \o ScanHtml(html, baseUrl, 10))

(***************************************************************************)
(* extractBookConfigAssets (part_002:478-521): six scans for double-quoted *)
(* strings; a relative one is resolved and kept unless it resolves to      *)
(* null, one that starts with http is kept as it is written.               *)
(***************************************************************************)
\* The text holds "/word/" with something before it and something after it.
HasDirSegment(ref, word) ==
    \E i \in 1..Len(ref.dir) :
        /\ ref.dir[i] = word
        /\ i > 1 \/ ref.form = "abs"
        /\ i < Len(ref.dir) \/ ref.base # NoName

ConfigScanMatches(scan, tok) ==
    /\ HasRef(tok) /\ DoubleQuoted(tok)
    /\ CASE scan = 1 -> tok.val.ext \in ImageExts /\ EndsWithExt(tok.val)
         [] scan = 2 -> tok.val.ext \in {"mp3", "mp4", "webm", "ogg"} /\ EndsWithExt(tok.val)
         [] scan = 3 -> tok.val.ext \in {"json", "xml"} /\ EndsWithExt(tok.val)
         [] scan = 4 -> HasDirSegment(tok.val, "files")
         [] scan = 5 -> HasDirSegment(tok.val, "mobile")
         [] OTHER    -> HasDirSegment(tok.val, "large")

\* Lines 503-509: what one matched string adds to the Set, if anything.
ConfigAssetOf(ref, baseUrl) ==
    IF ref.form = "abs"
    THEN Url(ref.host, ref.dir, ref.base, ref.ext, ref.query, ref.frag)
    ELSE IF ref.form = "badhttp" THEN RawText(ref)
    ELSE IF ref.form = "data" THEN NullV
    ELSE resolveUrl(ref, baseUrl)

ScanConfig(content, baseUrl, scan) ==
    LET found == SelectSeq(content, LAMBDA tok : ConfigScanMatches(scan, tok))
        added == [i \in 1..Len(found) |-> ConfigAssetOf(found[i].val, baseUrl)]
    IN  SelectSeq(added, LAMBDA a : ~IsNull(a))

extractBookConfigAssets(content, baseUrl) ==
    Dedupe(ScanConfig(content, baseUrl, 1) \o ScanConfig(content, baseUrl, 2)
            \o ScanConfig(content, baseUrl, 3) \o ScanConfig(content, baseUrl, 4)
            \o ScanConfig(content, baseUrl, 5) \o ScanConfig(content, baseUrl, 6))

(***************************************************************************)
(* CONFIG (part_002:26-32).                                                *)
(***************************************************************************)
maxRetries == 3

retryDelay == 1000

concurrentDownloads == 5

(***************************************************************************)
(* The origin that is mirrored: one book under /app/book/ on the host      *)
(* "site", and one script on the foreign host "cdn".                       *)
(***************************************************************************)
BookDir == <<"app", "book">>

BookBase == Url("site", BookDir, NoName, "", << >>, "")

SiteFile(sub, stem, ext) == Url("site", BookDir \o sub, Name(stem), ext, << >>, "")

Css1 == SiteFile(<<"css">>, "a", "css")

Css2 == SiteFile(<<"css">>, "b", "css")

Font == SiteFile(<<"css">>, "f", "woff")

Img == SiteFile(<<"img">>, "p", "png")

Js == SiteFile(<<"js">>, "m", "js")

Gone == SiteFile(<<"img">>, "x", "png")

CdnJs == Url("cdn", <<"lib">>, Name("q"), "js", << >>, "")

FilesDir == Url("site", BookDir \o <<"files">>, NoName, "", << >>, "")

RelRef(dir, stem, ext) == Ref("rel", "", dir, Name(stem), ext, << >>, "")

RootRef(dir, stem, ext) == Ref("root", "", dir, Name(stem), ext, << >>, "")

AbsRef(u) == Ref("abs", u.host, u.dir, u.base, u.ext, u.query, u.frag)

DataRef == Ref("data", "", << >>, NoName, "", << >>, "")

FragRef == Ref("frag", "", << >>, NoName, "", << >>, "top")

BadRef == Ref("bad", "", << >>, NoName, "", << >>, "")

\* "http://[x/a.png"
BadHttpRef == Ref("badhttp", "", << >>, Name("a"), "png", << >>, "")

\* a.css: url(f.woff), url('/app/book/img/p.png'), url(data:...), @import "b.css"
Css1Doc == << CssUrl("", RelRef(<< >>, "f", "woff")),
              CssUrl("sq", RootRef(BookDir \o <<"img">>, "p", "png")),
              CssUrl("", DataRef),
              Import(RelRef(<< >>, "b", "css")) >>

\* b.css: url("f.woff"), url(#top)
Css2Doc == << CssUrl("dq", RelRef(<< >>, "f", "woff")), CssUrl("", FragRef) >>

LargeDir == Url("site", BookDir \o <<"files", "large">>, NoName, "", << >>, "")

\* The assets the origin answers with status 200.
ServedAssets == {Css1, Css2, Font, Img, Js, CdnJs, FilesDir, LargeDir}

MobileUrl == SiteFile(<< >>, "mobile", "html")

\* configPaths (part_002:530-542), resolved against the book's base URL.
ConfigUrls ==
    << SiteFile(<< >>, "bookConfig", "js"), SiteFile(<< >>, "config", "js"),
       SiteFile(<< >>, "book", "json"), SiteFile(<< >>, "config", "json"),
       SiteFile(<< >>, "setting", "json"), SiteFile(<< >>, "pages", "json"),
       SiteFile(<< >>, "spine", "json"), SiteFile(<< >>, "manifest", "json"),
       SiteFile(<<"files">>, "config", "json"), SiteFile(<<"files">>, "setting", "json"),
       SiteFile(<<"mobile">>, "config", "json") >>

\* The book's page: <link href="css/a.css">, <link href="css/b.css">,
\* <img src="/app/book/img/p.png">, <img src="https://site/app/book/img/x.png">,
\* <script src="https://cdn/lib/q.js">
EntryDoc == << TagAttr("link", "href", RelRef(<<"css">>, "a", "css")),
               TagAttr("link", "href", RelRef(<<"css">>, "b", "css")),
               Attr("src", RootRef(BookDir \o <<"img">>, "p", "png")),
               Attr("src", AbsRef(Gone)),
               TagAttr("script", "src", AbsRef(CdnJs)) >>

\* mobile.html: <link href="css/a.css">, <img src="https://site/app/book/img/p.png">
MobileDoc == << TagAttr("link", "href", RelRef(<<"css">>, "a", "css")),
                Attr("src", AbsRef(Img)) >>

\* bookConfig.js: var logo = "https://site/app/book/img/p.png";
BookConfigDoc == << Text("var logo = "), Str(AbsRef(Img)) >>

\* config.json: ["https://site/app/book/files/large/", "https://site/app/book/js/m.js"]
ConfigJsonDoc == << Str(AbsRef(LargeDir)), Str(AbsRef(Js)) >>

\* The body the origin sends for a URL, as a document.
Body(u) ==
    LET r == RequestOf(u)
    IN  IF r = Css1 THEN Css1Doc
        ELSE IF r = Css2 THEN Css2Doc
        ELSE IF r = BookBase THEN EntryDoc
        ELSE IF r = MobileUrl THEN MobileDoc
        ELSE IF r = ConfigUrls[1] THEN BookConfigDoc
        ELSE IF r = ConfigUrls[4] THEN ConfigJsonDoc
        ELSE << >>

(***************************************************************************)
(* The output directory.  disk maps the LocalPath of every file under      *)
(* outputDir to its content; directories are the proper prefixes of the    *)
(* files' paths (ensureDir creates them before a file is written); a       *)
(* directory made on its own has an entry with a directory-like path.      *)
(***************************************************************************)
DirSeg(s) == [base |-> Name(s), ext |-> ""]

DirLike(p) == p.base = NoName /\ p.ext = ""

Segs(p) ==
    [i \in 1..Len(p.dir) |-> DirSeg(p.dir[i])]
        \o (IF DirLike(p) THEN << >> ELSE << [base |-> p.base, ext |-> p.ext] >>)

IsProperPrefix(a, b) == Len(a) < Len(b) /\ SubSeq(b, 1, Len(a)) = a

IsDir(p, d) ==
    \E f \in DOMAIN d :
        IsProperPrefix(Segs(p), Segs(f)) \/ (DirLike(f) /\ Segs(f) = Segs(p))

\* fs.existsSync(path.join(outputDir, localPath))
Exists(p, d) == (~DirLike(p) /\ p \in DOMAIN d) \/ IsDir(p, d)

\* ensureDir(dirname) followed by fs.writeFileSync(fullPath, data) succeeds
\* unless the path names a directory (trailing slash, or an existing
\* directory) or one of its parent directories is a file.
Writable(p, d) ==
    /\ ~DirLike(p)
    /\ ~IsDir(p, d)
    /\ ~\E f \in DOMAIN d : ~DirLike(f) /\ IsProperPrefix(Segs(f), Segs(p))

EmptyDisk == [p \in {} |-> NullV]

FileOf(src, doc) == [src |-> src, doc |-> doc, passes |-> 0]

WriteFile(d, p, c) == [q \in (DOMAIN d) \cup {p} |-> IF q = p THEN c ELSE d[q]]

\* ensureDir(p) (part_002:299-303) succeeds unless p or a parent of it is a file.
CanMkDir(p, d) ==
    ~\E f \in DOMAIN d :
        ~DirLike(f) /\ (IsProperPrefix(Segs(f), Segs(p)) \/ Segs(f) = Segs(p))

MkDir(d, p) == WriteFile(d, p, FileOf(NullV, << >>))

fnVars == <<call, ret>>

envVars == <<disk, faults, nFetch>>

schedVars == <<assets, queue, inProgress, downloaded, results, tasks, spc, raceSettled>>

pageVars == <<site, pageNum, patIdx, downloadedPages, lastProbe, ppc>>

runVars == <<bookUrl, phase, runNo, prevResults, ftries, step, configAssets, stats>>

vars == <<fnVars, envVars, schedVars, pageVars, runVars>>

NoCall == [op |-> "none"]

FnIdle == call = NoCall /\ ret = << >>

SchedIdle ==
    /\ assets = << >> /\ queue = << >> /\ inProgress = {} /\ downloaded = {}
    /\ results = EmptyBag /\ tasks = << >>
    /\ spc = "idle" /\ raceSettled = FALSE

NoProbe == [idx |-> 0, pat |-> 0]

NoSite == [pages |-> 0, pats |-> {}, entry |-> "page", mobile |-> FALSE, configs |-> {}]

PagesIdle ==
    /\ pageNum = 1 /\ patIdx = 1 /\ downloadedPages = << >>
    /\ lastProbe = NoProbe /\ ppc = "idle"

NoStats == [k |-> "none"]

RunIdle ==
    /\ bookUrl = NullV /\ phase = "none" /\ runNo = 0 /\ prevResults = EmptyBag
    /\ ftries = 0 /\ step = 0 /\ configAssets = << >> /\ stats = NoStats

(***************************************************************************)
(* fetchWithRetry (part_002:138-148).  i is the 0-based index of the       *)
(* attempt that has just failed.                                           *)
(***************************************************************************)
\* (variant: gives up one attempt early)
RetryOutcomeEarly(i, retries) == IF i >= retries - 2 THEN "throw" ELSE "wait"

RetryOutcome(i, retries) == IF i = retries - 1 THEN "throw" ELSE "wait"

\* (variant: every wait is twice the one before)
BackoffDelayDoubling(i) == retryDelay * (2 ^ i)

BackoffDelay(i) == retryDelay * (i + 1)

\* One attempt of fetchUrl fails when the origin does not serve the URL, or
\* by a transient failure (network error, timeout) while any are left.
\* The origin answers a request for u with status 200, unless a transient
\* failure hits the request.
Served(u) ==
    LET r == RequestOf(u)
    IN  \/ r \in ServedAssets
        \/ r = BookBase /\ site.entry # "missing"
        \/ r = MobileUrl /\ site.mobile
        \/ \E i \in site.configs : r = ConfigUrls[i]

CanFail(u) == ~Served(u) \/ faults > 0

FaultsAfterFailure(u) == IF Served(u) THEN faults - 1 ELSE faults

FailureMessage(u) == IF Served(u) THEN "Timeout" ELSE "HTTP 404"

(***************************************************************************)
(* downloadAsset (part_002:342-370).                                       *)
(***************************************************************************)
Result(url, localPath, status, extra, hasExtra, error) ==
    [k |-> "result", url |-> url, localPath |-> localPath, status |-> status,
     additionalAssets |-> extra, hasAdditional |-> hasExtra, error |-> error]

Task(url, st, res, reqs) ==
    [url |-> url, st |-> st, tries |-> 0, wait |-> 0, res |-> res,
     existed |-> FALSE, reqs |-> reqs, wrote |-> FALSE]

\* (variant: no existence check before fetching)
downloadAssetBeginNoCache(assetUrl, baseUrl, d) ==
    IF Falsy(getLocalPath(assetUrl, baseUrl))
    THEN Task(assetUrl, "settled", NullV, 0)
    ELSE Task(assetUrl, "fetching", NullV, 1)

\* (variant: a cached stylesheet is read from disk and its references queued)
downloadAssetBeginScanCached(assetUrl, baseUrl, d) ==
    LET localPath == getLocalPath(assetUrl, baseUrl)
    IN  IF Falsy(localPath)
        THEN Task(assetUrl, "settled", NullV, 0)
        ELSE IF Exists(localPath, d)
        THEN Task(assetUrl, "settled",
                  Result(assetUrl, localPath, "cached",
                         IF localPath.ext = "css"
                         THEN extractCssAssets(Body(assetUrl), assetUrl) ELSE << >>,
                         localPath.ext = "css", ""), 0)
        ELSE Task(assetUrl, "fetching", NullV, 1)

\* Lines 343-354: up to the first await.  The request of the first attempt
\* is issued before downloadAsset suspends.
downloadAssetBegin(assetUrl, baseUrl, d) ==
    LET localPath == getLocalPath(assetUrl, baseUrl)
    IN  IF Falsy(localPath)
        THEN Task(assetUrl, "settled", NullV, 0)
        ELSE IF Exists(localPath, d)
        THEN Task(assetUrl, "settled",
                  Result(assetUrl, localPath, "cached", << >>, FALSE, ""), 0)
        ELSE Task(assetUrl, "fetching", NullV, 1)

\* (variant: the error is thrown on; the promise of the call is rejected)
downloadAssetCatchRethrow(task, message) == [task EXCEPT !.st = "rejected"]

\* Lines 367-369: fetchWithRetry or the write threw.
downloadAssetCatch(task, message) ==
    [task EXCEPT !.st = "settled",
                 !.res = Result(task.url, NullV, "failed", << >>, FALSE, message)]

\* Lines 356-366: the response arrived.
downloadAssetStore(task, baseUrl, d) ==
    LET localPath == getLocalPath(task.url, baseUrl)
    IN  IF ~Writable(localPath, d)
        THEN downloadAssetCatch(task, "EISDIR")
        ELSE IF localPath.ext = "css"
        THEN [task EXCEPT !.st = "settled", !.wrote = TRUE,
                          !.res = Result(task.url, localPath, "downloaded",
                                         extractCssAssets(Body(task.url), task.url),
                                         TRUE, "")]
        ELSE [task EXCEPT !.st = "settled", !.wrote = TRUE,
                          !.res = Result(task.url, localPath, "downloaded",
                                         << >>, FALSE, "")]

DiskAfterStore(task, baseUrl, d) ==
    LET localPath == getLocalPath(task.url, baseUrl)
    IN  IF Writable(localPath, d)
        THEN WriteFile(d, localPath, FileOf(task.url, Body(task.url)))
        ELSE d

OnDisk(assetUrl, baseUrl, d) ==
    LET localPath == getLocalPath(assetUrl, baseUrl)
    IN  ~Falsy(localPath) /\ Exists(localPath, d)

(***************************************************************************)
(* downloadAssetsWithConcurrency (part_002:375-418).                       *)
(*   spc = "fill"   the inner while loop is running (no callback can run)  *)
(*   spc = "await"  suspended in `await Promise.race(inProgress)`          *)
(*   spc = "returned"                                                      *)
(* inProgress holds indices into tasks: one promise per admission.         *)
(***************************************************************************)
\* (variant: `<=` for `<`)
CanAdmitOneMore == queue # << >> /\ Cardinality(inProgress) <= concurrentDownloads

CanAdmit == queue # << >> /\ Cardinality(inProgress) < concurrentDownloads

\* (variant: the check of line 386 left out)
AlreadyAdmittedNever(asset) == FALSE

\* Line 386: `if (downloaded.has(asset)) continue`
AlreadyAdmitted(asset) == asset \in downloaded

SchedStart(seed) ==
    /\ assets' = seed
    /\ queue' = seed
    /\ inProgress' = {}
    /\ downloaded' = {}
    /\ results' = EmptyBag
    /\ tasks' = << >>
    /\ spc' = "fill"
    /\ raceSettled' = FALSE

SkipDuplicate ==
    /\ spc = "fill" /\ CanAdmit
    /\ AlreadyAdmitted(Head(queue))
    /\ queue' = Tail(queue)
    /\ UNCHANGED <<assets, inProgress, downloaded, results, tasks, spc, raceSettled>>
    /\ UNCHANGED <<fnVars, envVars, pageVars, runVars>>

Admit ==
    /\ spc = "fill" /\ CanAdmit
    /\ ~AlreadyAdmitted(Head(queue))
    /\ LET asset == Head(queue)
           \* existed notes, for the record, whether the asset's file was
           \* there when the asset was admitted
           task  == [downloadAssetBegin(asset, BookBase, disk)
                        EXCEPT !.existed = OnDisk(asset, BookBase, disk)]
       IN  /\ queue' = Tail(queue)
           /\ downloaded' = downloaded \cup {asset}
           /\ tasks' = Append(tasks, task)
           /\ inProgress' = inProgress \cup {Len(tasks) + 1}
           /\ nFetch' = nFetch + task.reqs
    /\ UNCHANGED <<assets, results, spc, raceSettled, disk, faults>>
    /\ UNCHANGED <<fnVars, pageVars, runVars>>

\* Lines 407-410: the inner loop is over and something is in flight.
AwaitRace ==
    /\ spc = "fill" /\ ~CanAdmit /\ inProgress # {}
    /\ spc' = "await"
    /\ raceSettled' = FALSE
    /\ UNCHANGED <<assets, queue, inProgress, downloaded, results, tasks>>
    /\ UNCHANGED <<fnVars, envVars, pageVars, runVars>>

\* Line 382 evaluated with nothing in flight and nothing queued.
LoopExit ==
    /\ spc = "fill" /\ ~CanAdmit /\ inProgress = {}
    /\ spc' = "returned"
    /\ UNCHANGED <<assets, queue, inProgress, downloaded, results, tasks, raceSettled>>
    /\ UNCHANGED <<fnVars, envVars, pageVars, runVars>>

\* (variant: the loop condition looks at the queue only)
ResumeQueueOnly ==
    /\ spc = "await" /\ raceSettled
    /\ \A t \in inProgress : tasks[t].st # "settled"
    /\ spc' = IF queue # << >> THEN "fill" ELSE "returned"
    /\ UNCHANGED <<assets, queue, inProgress, downloaded, results, tasks, raceSettled>>
    /\ UNCHANGED <<fnVars, envVars, pageVars, runVars>>

\* The await returns; line 382 is evaluated again.
Resume ==
    /\ spc = "await" /\ raceSettled
    /\ \A t \in inProgress : tasks[t].st # "settled"
    /\ spc' = IF queue # << >> \/ inProgress # {} THEN "fill" ELSE "returned"
    /\ UNCHANGED <<assets, queue, inProgress, downloaded, results, tasks, raceSettled>>
    /\ UNCHANGED <<fnVars, envVars, pageVars, runVars>>

\* JavaScript runs every pending promise callback before it handles the next
\* network or timer event: such an event is handled only while the loop is
\* suspended and no settled promise waits for its callback.
Pending == {t \in inProgress : tasks[t].st = "settled"}

Quiescent == spc = "await" /\ ~raceSettled /\ Pending = {}

\* An attempt of the task's fetch fails.
FetchFail(t) ==
    /\ Quiescent /\ t \in inProgress /\ tasks[t].st = "fetching"
    /\ CanFail(tasks[t].url)
    /\ faults' = FaultsAfterFailure(tasks[t].url)
    /\ LET task == tasks[t]
       IN  tasks' = [tasks EXCEPT ![t] =
            IF RetryOutcome(task.tries, maxRetries) = "throw"
            THEN [downloadAssetCatch(task, FailureMessage(task.url))
                    EXCEPT !.tries = task.tries + 1]
            ELSE [task EXCEPT !.st = "backoff",
                              !.wait = BackoffDelay(task.tries),
                              !.tries = task.tries + 1]]
    /\ UNCHANGED <<assets, queue, inProgress, downloaded, results, spc, raceSettled>>
    /\ UNCHANGED <<disk, nFetch, fnVars, pageVars, runVars>>

\* The retry delay is over: the next attempt's request is issued.
RetryTimer(t) ==
    /\ Quiescent /\ t \in inProgress /\ tasks[t].st = "backoff"
    /\ tasks' = [tasks EXCEPT ![t] = [tasks[t] EXCEPT !.st = "fetching", !.wait = 0,
                                                       !.reqs = tasks[t].reqs + 1]]
    /\ nFetch' = nFetch + 1
    /\ UNCHANGED <<assets, queue, inProgress, downloaded, results, spc, raceSettled>>
    /\ UNCHANGED <<disk, faults, fnVars, pageVars, runVars>>

\* An attempt succeeds: downloadAsset writes the file and returns.
FetchOk(t) ==
    /\ Quiescent /\ t \in inProgress /\ tasks[t].st = "fetching"
    /\ Served(tasks[t].url)
    /\ tasks' = [tasks EXCEPT ![t] = downloadAssetStore(tasks[t], BookBase, disk)]
    /\ disk' = DiskAfterStore(tasks[t], BookBase, disk)
    /\ UNCHANGED <<assets, queue, inProgress, downloaded, results, spc, raceSettled>>
    /\ UNCHANGED <<faults, nFetch, fnVars, pageVars, runVars>>

\* (variant: what a stylesheet reports is dropped)
PushableNone(extra, seen) == << >>

\* Lines 395-399: the additional assets that are pushed.
Pushable(extra, seen) ==
    SelectSeq(extra, LAMBDA a : ~IsNull(a) /\ a \notin seen)

\* Lines 390-403: the .then callback of a settled downloadAsset promise.
\* Callbacks run in the order in which their promises were created.
Callback(t) ==
    /\ spc = "await" /\ t \in Pending /\ \A o \in Pending : t <= o
    /\ inProgress' = inProgress \ {t}
    /\ LET result == tasks[t].res
       IN  IF IsNull(result)
           THEN UNCHANGED <<results, queue>>
           ELSE /\ results' = results (+) SetToBag({result})
                /\ queue' = IF result.hasAdditional
                            THEN queue \o Pushable(result.additionalAssets, downloaded)
                            ELSE queue
    /\ tasks' = [tasks EXCEPT ![t].st = "delivered"]
    /\ raceSettled' = TRUE
    /\ UNCHANGED <<assets, downloaded, spc>>
    /\ UNCHANGED <<fnVars, envVars, pageVars, runVars>>

SchedStep ==
    \/ SkipDuplicate
    \/ Admit
    \/ AwaitRace
    \/ LoopExit
    \/ Resume
    \/ \E t \in 1..Len(tasks) : FetchFail(t)
    \/ \E t \in 1..Len(tasks) : RetryTimer(t)
    \/ \E t \in 1..Len(tasks) : FetchOk(t)
    \/ \E t \in 1..Len(tasks) : Callback(t)

(***************************************************************************)
(* downloadBookPages (part_002:423-473).  site.pages is the number of      *)
(* pages the origin has, site.pats the path templates under which it       *)
(* serves each of them.  While ppc = "probing" the request for template    *)
(* patIdx of page pageNum is outstanding (fetchWithRetry with retries = 1).*)
(***************************************************************************)
maxPages == 500

PatDirs == << <<"files", "mobile">>, <<"files", "mobile">>, <<"files", "large">>,
              <<"files", "thumb">>, <<"mobile">>, << >> >>

PatExts == << "jpg", "png", "jpg", "jpg", "jpg", "jpg" >>

PageUrl(n, p) ==
    Url("site", BookDir \o PatDirs[p], Name(ToString(n)), PatExts[p], << >>, "")

PageServed(n, p) == n \in 1..site.pages /\ p \in site.pats

\* (variant: a page without any image is skipped and the scan goes on)
AfterFullMissSkip(n) ==
    IF n + 1 <= maxPages THEN [pageNum |-> n + 1, ppc |-> "probing"]
    ELSE [pageNum |-> n + 1, ppc |-> "done"]

\* Lines 461-467: no template of page n gave an image.
AfterFullMiss(n) == [pageNum |-> n, ppc |-> "done"]

\* (variant: the loop condition lets one more page through)
AfterHitPastCeiling(n) ==
    IF n <= maxPages THEN [pageNum |-> n + 1, ppc |-> "probing"]
    ELSE [pageNum |-> n + 1, ppc |-> "done"]

\* Lines 469 and 433: pageNum++ and the loop condition.
AfterHit(n) ==
    IF n + 1 <= maxPages THEN [pageNum |-> n + 1, ppc |-> "probing"]
    ELSE [pageNum |-> n + 1, ppc |-> "done"]

\* Line 424: path.join(outputDir, 'files', 'mobile')
pagesDir == LocalPath(<<"files", "mobile">>, NoName, "")

\* Lines 427-433 and the first request.
PagesStart ==
    /\ pageNum' = 1
    /\ patIdx' = 1
    /\ downloadedPages' = << >>
    /\ ppc' = "probing"
    /\ lastProbe' = [idx |-> 1, pat |-> 1]

\* Moving to (n, p): the request for it is issued if the scan goes on.
ProbeNext(nxt, p) ==
    /\ pageNum' = nxt.pageNum
    /\ ppc' = nxt.ppc
    /\ patIdx' = p
    /\ IF nxt.ppc = "probing"
       THEN lastProbe' = [idx |-> nxt.pageNum, pat |-> p] /\ nFetch' = nFetch + 1
       ELSE UNCHANGED <<lastProbe, nFetch>>

PageStorable == Writable(getLocalPath(PageUrl(pageNum, patIdx), BookBase), disk)

\* (variant: after a miss the template after the next one is tried)
ProbeMissedSkip ==
    IF patIdx + 1 < Len(PatDirs)
    THEN ProbeNext([pageNum |-> pageNum, ppc |-> "probing"], patIdx + 2)
    ELSE ProbeNext(AfterFullMiss(pageNum), patIdx)

\* Lines 456-459: the attempt failed, or the write threw: next template.
ProbeMissed ==
    IF patIdx < Len(PatDirs)
    THEN ProbeNext([pageNum |-> pageNum, ppc |-> "probing"], patIdx + 1)
    ELSE ProbeNext(AfterFullMiss(pageNum), patIdx)

\* The single attempt fails (RetryOutcome(0, 1) is "throw").
ProbeMiss ==
    /\ ppc = "probing"
    /\ ~PageServed(pageNum, patIdx) \/ faults > 0
    /\ RetryOutcome(0, 1) = "throw"
    /\ faults' = IF PageServed(pageNum, patIdx) THEN faults - 1 ELSE faults
    /\ ProbeMissed
    /\ UNCHANGED <<disk, downloadedPages, site>>
    /\ UNCHANGED <<fnVars, schedVars, runVars>>

\* Lines 447-455: the image arrived; it is written and recorded.
ProbeHit ==
    /\ ppc = "probing"
    /\ PageServed(pageNum, patIdx)
    /\ IF PageStorable
       THEN /\ disk' = WriteFile(disk, getLocalPath(PageUrl(pageNum, patIdx), BookBase),
                                 FileOf(PageUrl(pageNum, patIdx), << >>))
            /\ downloadedPages' = Append(downloadedPages, PageUrl(pageNum, patIdx))
            /\ ProbeNext(AfterHit(pageNum), 1)
       ELSE /\ ProbeMissed
            /\ UNCHANGED <<disk, downloadedPages>>
    /\ UNCHANGED <<faults, site>>
    /\ UNCHANGED <<fnVars, schedVars, runVars>>

PagesStep == ProbeMiss \/ ProbeHit

(***************************************************************************)
(* parseFlipHTML5Url (part_002:57-76).  NullV stands for the thrown error. *)
(***************************************************************************)
PathParts(u) == u.dir \o (IF DirLike(u) THEN << >> ELSE << u.base.stem >>)

parseFlipHTML5Url(url) ==
    IF ~IsUrl(url) THEN NullV
    ELSE IF Len(PathParts(url)) >= 2
         THEN [k |-> "book", host |-> url.host,
               bookId1 |-> PathParts(url)[1], bookId2 |-> PathParts(url)[2],
               baseUrl |-> Url(url.host, SubSeq(PathParts(url), 1, 2), NoName, "",
                               << >>, "")]
    ELSE NullV

(***************************************************************************)
(* downloadFlipHTML5Book (part_002:723-863) and main (part_002:866-907).   *)
(* phase is the await the run is suspended at, or the synchronous step it  *)
(* takes next; "aborted" is main's catch (exit code 1), "done" the return. *)
(***************************************************************************)
bookInfo == parseFlipHTML5Url(bookUrl)

\* The page the origin sends: the book's page, or a page without references.
htmlContent == IF site.entry = "page" THEN Body(BookBase) ELSE << >>

MobilePath == LocalPath(<< >>, Name("mobile"), "html")

IndexPath == LocalPath(<< >>, Name("index"), "html")

VerifyPath == LocalPath(<< >>, Name("verify"), "html")

\* Lines 752-764: [...new Set([...assets, ...configAssets, ...inlineConfigAssets])]
AllAssets(fromConfigs) ==
    Dedupe(extractAssets(htmlContent, BookBase) \o fromConfigs
            \o extractBookConfigAssets(htmlContent, BookBase))

\* Lines 727-738.
ParseUrl ==
    /\ phase = "start"
    /\ IF IsNull(bookInfo)
       THEN phase' = "aborted" /\ UNCHANGED nFetch
       ELSE phase' = "entry" /\ nFetch' = nFetch + 1
    /\ UNCHANGED <<bookUrl, runNo, prevResults, ftries, step, configAssets, stats>>
    /\ UNCHANGED <<disk, faults, fnVars, schedVars, pageVars>>

\* A failed attempt of a sequential fetch that is tried again: the run waits
\* for BackoffDelay(ftries) and issues the next request.
TryAgain ==
    /\ ftries' = ftries + 1
    /\ nFetch' = nFetch + 1
    /\ UNCHANGED <<phase, step, configAssets, disk>>

\* Lines 738-743: the next await is the fetch of mobile.html.
EntryOk ==
    /\ phase = "entry" /\ Served(BookBase)
    /\ phase' = "mobile" /\ ftries' = 0 /\ nFetch' = nFetch + 1
    /\ UNCHANGED <<bookUrl, runNo, prevResults, step, configAssets, stats>>
    /\ UNCHANGED <<disk, faults, fnVars, schedVars, pageVars>>

\* (variant: a main page that cannot be fetched is treated as an empty page)
EntryFailGoesOn ==
    /\ phase = "entry" /\ CanFail(BookBase)
    /\ faults' = FaultsAfterFailure(BookBase)
    /\ IF RetryOutcome(ftries, maxRetries) = "throw"
       THEN /\ phase' = "mobile" /\ ftries' = 0 /\ nFetch' = nFetch + 1
            /\ UNCHANGED <<step, configAssets, disk>>
       ELSE TryAgain
    /\ UNCHANGED <<bookUrl, runNo, prevResults, stats>>
    /\ UNCHANGED <<fnVars, schedVars, pageVars>>

\* Line 738 throws after maxRetries failed attempts: the run is over.
EntryFail ==
    /\ phase = "entry" /\ CanFail(BookBase)
    /\ faults' = FaultsAfterFailure(BookBase)
    /\ IF RetryOutcome(ftries, maxRetries) = "throw"
       THEN /\ phase' = "aborted" /\ ftries' = ftries + 1
            /\ UNCHANGED <<nFetch, step, configAssets, disk>>
       ELSE TryAgain
    /\ UNCHANGED <<bookUrl, runNo, prevResults, stats>>
    /\ UNCHANGED <<fnVars, schedVars, pageVars>>

\* Lines 751-757: extractAssets, then the request for the first config file.
ToConfigs ==
    /\ phase' = "configs" /\ ftries' = 0 /\ step' = 1 /\ configAssets' = << >>
    /\ nFetch' = nFetch + 1

\* Lines 743-745; a write that throws is caught like a failed fetch.
MobileOk ==
    /\ phase = "mobile" /\ Served(MobileUrl)
    /\ disk' = IF Writable(MobilePath, disk)
               THEN WriteFile(disk, MobilePath, FileOf(MobileUrl, Body(MobileUrl)))
               ELSE disk
    /\ ToConfigs
    /\ UNCHANGED <<bookUrl, runNo, prevResults, stats>>
    /\ UNCHANGED <<faults, fnVars, schedVars, pageVars>>

\* Lines 746-748.
MobileFail ==
    /\ phase = "mobile" /\ CanFail(MobileUrl)
    /\ faults' = FaultsAfterFailure(MobileUrl)
    /\ IF RetryOutcome(ftries, maxRetries) = "throw"
       THEN ToConfigs /\ UNCHANGED disk
       ELSE TryAgain
    /\ UNCHANGED <<bookUrl, runNo, prevResults, stats>>
    /\ UNCHANGED <<fnVars, schedVars, pageVars>>

\* The config loop goes on, or downloadFlipbookConfigs returns and lines
\* 759-769 start the scheduler with the merged list.
AfterConfig(found) ==
    /\ configAssets' = found
    /\ ftries' = 0
    /\ IF step < Len(ConfigUrls)
       THEN /\ step' = step + 1 /\ nFetch' = nFetch + 1
            /\ UNCHANGED <<phase, schedVars>>
       ELSE /\ step' = step /\ phase' = "sched"
            /\ SchedStart(AllAssets(found))
            /\ UNCHANGED nFetch

\* Lines 546-559.
ConfigOk ==
    /\ phase = "configs" /\ Served(ConfigUrls[step])
    /\ LET configUrl == ConfigUrls[step]
           localPath == getLocalPath(configUrl, BookBase)
       IN  IF Writable(localPath, disk)
           THEN /\ disk' = WriteFile(disk, localPath, FileOf(configUrl, Body(configUrl)))
                /\ AfterConfig(Dedupe(configAssets
                                      \o extractBookConfigAssets(Body(configUrl), configUrl)))
           ELSE /\ UNCHANGED disk
                /\ AfterConfig(configAssets)
    /\ UNCHANGED <<bookUrl, runNo, prevResults, stats>>
    /\ UNCHANGED <<faults, fnVars, pageVars>>

\* Lines 560-562: the single attempt failed.
ConfigMiss ==
    /\ phase = "configs" /\ CanFail(ConfigUrls[step])
    /\ RetryOutcome(0, 1) = "throw"
    /\ faults' = FaultsAfterFailure(ConfigUrls[step])
    /\ AfterConfig(configAssets)
    /\ UNCHANGED <<bookUrl, runNo, prevResults, stats>>
    /\ UNCHANGED <<disk, fnVars, pageVars>>

\* Lines 769-772: the scheduler has returned; the prober makes its
\* directory (line 425, outside any try) and starts.
SchedDone ==
    /\ phase = "sched" /\ spc = "returned"
    /\ IF CanMkDir(pagesDir, disk)
       THEN /\ phase' = "pages"
            /\ disk' = MkDir(disk, pagesDir)
            /\ PagesStart
            /\ nFetch' = nFetch + 1
       ELSE /\ phase' = "aborted"
            /\ UNCHANGED <<disk, nFetch, pageNum, patIdx, downloadedPages, lastProbe, ppc>>
    /\ UNCHANGED <<bookUrl, runNo, prevResults, ftries, step, configAssets, stats>>
    /\ UNCHANGED <<faults, site, fnVars, schedVars>>

\* (variant: index.html is rewritten as soon as the asset list is known)
RewriteHtmlEarly ==
    /\ phase = "sched"
    /\ IF Writable(IndexPath, disk)
       THEN /\ disk' = WriteFile(disk, IndexPath,
                                 FileOf(BookBase, rewriteUrls(htmlContent, BookBase, TRUE)))
            /\ phase' = "rewriteCss"
       ELSE /\ phase' = "aborted"
            /\ UNCHANGED disk
    /\ UNCHANGED <<bookUrl, runNo, prevResults, ftries, step, configAssets, stats>>
    /\ UNCHANGED <<faults, nFetch, fnVars, schedVars, pageVars>>

\* Lines 775-777: the prober has returned; index.html is written.  A write
\* that throws ends the run in main's catch.
RewriteHtml ==
    /\ phase = "pages" /\ ppc = "done"
    /\ IF Writable(IndexPath, disk)
       THEN /\ disk' = WriteFile(disk, IndexPath,
                                 FileOf(BookBase, rewriteUrls(htmlContent, BookBase, TRUE)))
            /\ phase' = "rewriteCss"
       ELSE /\ phase' = "aborted"
            /\ UNCHANGED disk
    /\ UNCHANGED <<bookUrl, runNo, prevResults, ftries, step, configAssets, stats>>
    /\ UNCHANGED <<faults, nFetch, fnVars, schedVars, pageVars>>

\* new URL(file, bookInfo.baseUrl).href for a file of the output directory.
FileBase(p) == resolveUrl(AsRef(p), BookBase)

\* The rewriter that lines 787, 803 and 819 apply to a file.
PassFor(ext, content, baseUrl) ==
    IF ext = "css" THEN rewriteUrls(content, baseUrl, FALSE)
    ELSE IF ext = "js" THEN rewriteJsUrls(content, baseUrl, bookInfo)
    ELSE rewriteJsonUrls(content, baseUrl, bookInfo)

\* Every file of the output directory with the extension ext is read,
\* rewritten and written back.
RewriteFiles(d, ext) ==
    [p \in DOMAIN d |->
        IF p.ext = ext
        THEN [d[p] EXCEPT !.doc = PassFor(ext, d[p].doc, FileBase(p)),
                          !.passes = d[p].passes + 1]
        ELSE d[p]]

\* Lines 780-793.
RewriteCss ==
    /\ phase = "rewriteCss"
    /\ disk' = RewriteFiles(disk, "css")
    /\ phase' = "rewriteJs"
    /\ UNCHANGED <<bookUrl, runNo, prevResults, ftries, step, configAssets, stats>>
    /\ UNCHANGED <<faults, nFetch, fnVars, schedVars, pageVars>>

\* Lines 796-809.
RewriteJs ==
    /\ phase = "rewriteJs"
    /\ disk' = RewriteFiles(disk, "js")
    /\ phase' = "rewriteJson"
    /\ UNCHANGED <<bookUrl, runNo, prevResults, ftries, step, configAssets, stats>>
    /\ UNCHANGED <<faults, nFetch, fnVars, schedVars, pageVars>>

\* Lines 812-825.
RewriteJson ==
    /\ phase = "rewriteJson"
    /\ disk' = RewriteFiles(disk, "json")
    /\ phase' = "report"
    /\ UNCHANGED <<bookUrl, runNo, prevResults, ftries, step, configAssets, stats>>
    /\ UNCHANGED <<faults, nFetch, fnVars, schedVars, pageVars>>

RECURSIVE CountOf(_, _)
CountOf(rs, status) ==
    IF rs = {} THEN 0
    ELSE LET r == CHOOSE x \in rs : TRUE
         IN  (IF r.status = status THEN CopiesIn(r, results) ELSE 0)
                 + CountOf(rs \ {r}, status)

\* Lines 828-834.
Stats ==
    [downloaded |-> CountOf(BagToSet(results), "downloaded"),
     cached     |-> CountOf(BagToSet(results), "cached"),
     failed     |-> CountOf(BagToSet(results), "failed"),
     pages      |-> Len(downloadedPages)]

\* Lines 828-862: the counts, verify.html, the summary; the run returns.
Report ==
    /\ phase = "report"
    /\ stats' = Stats
    /\ IF Writable(VerifyPath, disk)
       THEN /\ disk' = WriteFile(disk, VerifyPath, FileOf(NullV, << >>))
            /\ phase' = "done"
       ELSE /\ phase' = "aborted"
            /\ UNCHANGED disk
    /\ UNCHANGED <<bookUrl, runNo, prevResults, ftries, step, configAssets>>
    /\ UNCHANGED <<faults, nFetch, fnVars, schedVars, pageVars>>

RunStep ==
    \/ ParseUrl
    \/ EntryOk
    \/ EntryFail
    \/ MobileOk
    \/ MobileFail
    \/ ConfigOk
    \/ ConfigMiss
    \/ SchedDone
    \/ RewriteHtml
    \/ RewriteCss
    \/ RewriteJs
    \/ RewriteJson
    \/ Report

(***************************************************************************)
(* The tool run MaxRuns times with the same arguments on the same output   *)
(* directory, against one of three origins.                                *)
(***************************************************************************)
MaxRuns == 2

MaxPagesServed == 2

MaxFaults == 2

BookUrls == { Url("site", <<"app">>, Name("book"), "", << >>, ""),
              Url("site", <<"app">>, NoName, "", << >>, ""),
              NullV }

Sites == { [pages |-> MaxPagesServed, pats |-> {2, 5}, entry |-> "page",
            mobile |-> TRUE, configs |-> {1, 4}],
           [pages |-> 0, pats |-> {}, entry |-> "empty", mobile |-> FALSE,
            configs |-> {}],
           [pages |-> 0, pats |-> {}, entry |-> "missing", mobile |-> FALSE,
            configs |-> {}] }

\* The same command is run again after the run before it has returned.
RunAgain ==
    /\ phase = "done" /\ runNo < MaxRuns
    /\ runNo' = runNo + 1
    /\ prevResults' = results
    /\ phase' = "start"
    /\ nFetch' = 0
    /\ ftries' = 0 /\ step' = 0 /\ configAssets' = << >> /\ stats' = NoStats
    /\ assets' = << >> /\ queue' = << >> /\ inProgress' = {} /\ downloaded' = {}
    /\ results' = EmptyBag /\ tasks' = << >> /\ spc' = "idle" /\ raceSettled' = FALSE
    /\ pageNum' = 1 /\ patIdx' = 1 /\ downloadedPages' = << >>
    /\ lastProbe' = NoProbe /\ ppc' = "idle"
    /\ UNCHANGED <<bookUrl, site, disk, faults, fnVars>>

Init ==
    /\ FnIdle /\ SchedIdle /\ PagesIdle
    /\ bookUrl \in BookUrls
    /\ site \in Sites
    /\ disk = EmptyDisk /\ faults = MaxFaults /\ nFetch = 0
    /\ phase = "start" /\ runNo = 1 /\ prevResults = EmptyBag
    /\ ftries = 0 /\ step = 0 /\ configAssets = << >> /\ stats = NoStats

Next == RunStep \/ SchedStep \/ PagesStep \/ RunAgain

Spec == Init /\ [][Next]_vars

(***************************************************************************)
(* The prober on its own, against an origin that answers every request:    *)
(* it has 0..MaxPagesServed pages, or about as many as the safety limit.   *)
(***************************************************************************)
PageCounts == (0..MaxPagesServed) \cup {maxPages - 1, maxPages, maxPages + 1}

PatSets == { {1}, {2, 5}, {6} }

ProberInit ==
    /\ FnIdle /\ SchedIdle /\ RunIdle
    /\ site \in [pages : PageCounts, pats : PatSets, entry : {"page"}, mobile : {FALSE},
               configs : {{}}]
    /\ disk = MkDir(EmptyDisk, pagesDir) /\ faults = 0 /\ nFetch = 1
    /\ pageNum = 1 /\ patIdx = 1 /\ downloadedPages = << >>
    /\ lastProbe = [idx |-> 1, pat |-> 1] /\ ppc = "probing"

ProberNext == PagesStep

ProberSpec == ProberInit /\ [][ProberNext]_vars

Min(a, b) == IF a < b THEN a ELSE b

\* C7 as stated: against an origin that serves pages 1..n and nothing for
\* page n+1, the prober ends with exactly n recorded images and never asks
\* for a page above n+1.
C7_AsStated ==
    /\ lastProbe.idx <= site.pages + 1
    /\ ppc = "done" => Len(downloadedPages) = site.pages

\* C7, amended: the prober ends with exactly min(n, maxPages) recorded
\* images, one for each of the pages 1..min(n, maxPages), and never asks for
\* a page above n+1.
C7_StopsAtFirstMiss ==
    /\ lastProbe.idx <= site.pages + 1
    /\ ppc = "done" =>
         /\ Len(downloadedPages) = Min(site.pages, maxPages)
         /\ \A i \in 1..Len(downloadedPages) :
              \E p \in site.pats : downloadedPages[i] = PageUrl(i, p)

\* The prober stopped at the first page without an image, below the limit.
C7_Witness ==
    /\ ppc = "done"
    /\ site.pages = MaxPagesServed
    /\ lastProbe = [idx |-> site.pages + 1, pat |-> Len(PatDirs)]
    /\ Len(downloadedPages) = site.pages

\* The first template under which the origin serves its pages.
FirstServedPat == CHOOSE p \in site.pats : \A q \in site.pats : p <= q

\* The step of the prober that ends the request for template lastProbe.pat
\* of page lastProbe.idx: a hit records that URL and the next request is for
\* template 1 of the next page; a miss leads to the next template of the
\* same page, or ends the scan after the last one.  Every request issued
\* adds one to nFetch.
ProbeInOrder ==
    ppc = "probing" =>
        IF Len(downloadedPages') > Len(downloadedPages)
        THEN /\ downloadedPages' =
                    Append(downloadedPages, PageUrl(lastProbe.idx, lastProbe.pat))
             /\ IF ppc' = "probing"
                THEN lastProbe' = [idx |-> lastProbe.idx + 1, pat |-> 1]
                        /\ nFetch' = nFetch + 1
                ELSE nFetch' = nFetch /\ lastProbe.idx = maxPages
        ELSE /\ downloadedPages' = downloadedPages
             /\ IF lastProbe.pat < Len(PatDirs)
                THEN /\ ppc' = "probing" /\ nFetch' = nFetch + 1
                     /\ lastProbe' = [idx |-> lastProbe.idx, pat |-> lastProbe.pat + 1]
                ELSE ppc' = "done" /\ nFetch' = nFetch

\* The requests made so far: for every recorded page, the templates up to
\* the first one served, once each; then those of the page being probed.
RequestsExpected ==
    FirstServedPat * Len(downloadedPages)
        + (IF ppc = "probing" THEN lastProbe.pat
           ELSE IF Len(downloadedPages) = maxPages THEN 0 ELSE Len(PatDirs))

\* C22: for each page index the templates are requested in their listed
\* order, once each, without retry; the first one that succeeds is recorded,
\* no later template of that index is requested, and the scan moves on to
\* the next index: the k-th recorded image is an image of page k.
C22_TemplatesInOrder ==
    /\ [][ProbeInOrder]_vars
    /\ [](\A i \in 1..Len(downloadedPages) :
            \E p \in 1..Len(PatDirs) : downloadedPages[i] = PageUrl(i, p))
    /\ [](\A i \in 1..Len(downloadedPages) :
            downloadedPages[i] = PageUrl(i, FirstServedPat))
    /\ [](nFetch = RequestsExpected)

\* Two pages served under the second and the fifth template: each was found
\* by its second request, and the six requests for page 3 all missed.
C22_Witness ==
    /\ ppc = "done" /\ site.pats = {2, 5} /\ site.pages = 2
    /\ downloadedPages = << PageUrl(1, 2), PageUrl(2, 2) >>
    /\ nFetch = 2 + 2 + Len(PatDirs)

\* The requests the scan can still make: none once it has halted.
ProbesLeft ==
    IF ppc = "done" THEN 0
    ELSE 1 + Len(PatDirs) * (maxPages - lastProbe.idx)
           + (Len(PatDirs) - lastProbe.pat)

\* The facts of the scan that bound it.
ProbeBounds ==
    /\ lastProbe.idx \in 1..maxPages
    /\ Len(downloadedPages) <= maxPages
    /\ nFetch <= Len(PatDirs) * lastProbe.idx
    /\ nFetch <= Len(PatDirs) * maxPages
    /\ ProbesLeft \in Nat
    /\ (ppc = "done" /\ site.pages >= maxPages
            => Len(downloadedPages) = maxPages /\ lastProbe.idx = maxPages)

\* C23: no request is made for a page index above maxPages; on an origin
\* that serves every index the scan halts after index maxPages with exactly
\* maxPages recorded pages; and the scan always halts: it makes at most one
\* request per template for every index it reaches, and every step lowers
\* the number of requests it can still make.
C23_CeilingAndHalt ==
    /\ []ProbeBounds
    /\ [][ProbesLeft' < ProbesLeft]_vars

\* An origin with more pages than the ceiling: the scan has halted with
\* maxPages recorded pages, the last request being for page maxPages.
C23_Witness ==
    /\ ppc = "done" /\ site.pages = maxPages + 1
    /\ Len(downloadedPages) = maxPages
    /\ lastProbe.idx = maxPages
    /\ downloadedPages[maxPages] = PageUrl(maxPages, FirstServedPat)

(***************************************************************************)
(* fetchWithRetry on its own (part_002:138-148): one call with a retry     *)
(* bound `retries`, against a fetchUrl whose first `fails` attempts reject. *)
(* call.i is the loop variable, call.reqs the attempts made, call.err the  *)
(* attempt whose error the call rejected with; ret holds the waits made,   *)
(* in milliseconds.                                                        *)
(***************************************************************************)
MaxRetryBound == 5

RetryInit ==
    /\ SchedIdle /\ PagesIdle /\ RunIdle
    /\ site = NoSite
    /\ disk = EmptyDisk /\ faults = 0 /\ nFetch = 0
    /\ call \in [op : {"retry"}, retries : 1..MaxRetryBound,
                  fails : 0..MaxRetryBound, i : {0}, reqs : {1},
                  st : {"trying"}, err : {0}]
    /\ ret = << >>

\* Line 141: the attempt resolves and its value is returned.
AttemptResolves ==
    /\ call.op = "retry" /\ call.st = "trying"
    /\ call.reqs > call.fails
    /\ call' = [call EXCEPT !.st = "returned"]
    /\ UNCHANGED <<ret, envVars, schedVars, pageVars, runVars>>

\* Lines 142-146: the attempt rejects; the last one is rethrown, any other
\* one starts the timer.
AttemptRejects ==
    /\ call.op = "retry" /\ call.st = "trying"
    /\ call.reqs <= call.fails
    /\ IF RetryOutcome(call.i, call.retries) = "throw"
       THEN /\ call' = [call EXCEPT !.st = "thrown", !.err = call.reqs]
            /\ ret' = ret
       ELSE /\ call' = [call EXCEPT !.st = "waiting"]
            /\ ret' = Append(ret, BackoffDelay(call.i))
    /\ UNCHANGED <<envVars, schedVars, pageVars, runVars>>

\* Lines 145, 139-141: the timer fires, i++, the next attempt is made.
BackoffElapses ==
    /\ call.op = "retry" /\ call.st = "waiting"
    /\ call' = [call EXCEPT !.st = "trying", !.i = call.i + 1,
                            !.reqs = call.reqs + 1]
    /\ UNCHANGED <<ret, envVars, schedVars, pageVars, runVars>>

RetryNext == AttemptResolves \/ AttemptRejects \/ BackoffElapses

RetrySpec == RetryInit /\ [][RetryNext]_vars

\* Attempts are bounded by `retries`; a wait follows every failed attempt
\* but the last; the call rejects with the error of attempt `retries`.
AttemptsAndWaits ==
    call.op = "retry" =>
        /\ call.reqs \in 1..call.retries
        /\ call.reqs = call.i + 1
        /\ Len(ret) = IF call.st = "waiting" THEN call.reqs ELSE call.reqs - 1
        /\ Len(ret) <= call.retries - 1
        /\ (call.st = "thrown" =>
                /\ call.reqs = call.retries /\ call.err = call.retries
                /\ Len(ret) = call.retries - 1)
        /\ (call.st = "returned" => call.reqs = call.fails + 1)

\* Each wait is the same multiple, greater than 1, of the wait before it.
GeometricWaits ==
    /\ \A k \in 1..(Len(ret) - 1) : ret[k + 1] > ret[k]
    /\ \A k \in 1..(Len(ret) - 2) : ret[k + 1] * ret[k + 1] = ret[k] * ret[k + 2]

\* The k-th wait is k times retryDelay: each wait is longer than the one
\* before by the same amount.
LinearWaits == \A k \in 1..Len(ret) : ret[k] = retryDelay * k

\* C24 as stated: bounded attempts, waits only between attempts, the error
\* of the last attempt rethrown, and waits growing by a constant factor.
C24_AsStated == AttemptsAndWaits /\ GeometricWaits

\* C24: fetchWithRetry makes at most `retries` attempts, waits only after a
\* failed attempt that is not the last, rejects with the last attempt's
\* error without waiting, and its k-th wait lasts k times retryDelay: the
\* waits grow by a constant amount, not by a constant factor.
C24_LinearBackoff == AttemptsAndWaits /\ LinearWaits

\* Four attempts all failed: three waits of 1, 2 and 3 times retryDelay,
\* then the fourth error is rethrown.
C24_Witness ==
    /\ call.op = "retry" /\ call.st = "thrown" /\ call.retries = 4
    /\ ret = << retryDelay, 2 * retryDelay, 3 * retryDelay >>
    /\ call.err = 4

(***************************************************************************)
(* The scheduler on its own: downloadAssetsWithConcurrency called with a   *)
(* seed list, on an output directory that is empty or already holds a      *)
(* file, against an origin that may fail up to MaxFaults attempts.         *)
(***************************************************************************)
SeedLists ==
    { << Css1, Css2, Img, Gone, FilesDir, CdnJs, Css1, NullV >>,
      << NullV, Img, Img >>,
      << >> }

DiskWith(u) == WriteFile(EmptyDisk, getLocalPath(u, BookBase), FileOf(u, Body(u)))

StartDisks == { EmptyDisk, DiskWith(Img), DiskWith(Css1) }

SchedInit ==
    /\ FnIdle /\ PagesIdle /\ RunIdle
    /\ site = NoSite
    /\ disk \in StartDisks
    /\ faults = MaxFaults
    /\ nFetch = 0
    /\ assets \in SeedLists
    /\ queue = assets
    /\ inProgress = {} /\ downloaded = {} /\ results = EmptyBag /\ tasks = << >>
    /\ spc = "fill" /\ raceSettled = FALSE

SchedNext == SchedStep

SchedSpec == SchedInit /\ [][SchedNext]_vars

(***************************************************************************)
(* Properties of the scheduler.                                            *)
(***************************************************************************)
Running == {t \in 1..Len(tasks) : tasks[t].st # "delivered"}

AdmittedUrls == {tasks[t].url : t \in 1..Len(tasks)}

SeedUrls == {assets[i] : i \in 1..Len(assets)}

Range(f) == {f[i] : i \in 1..Len(f)}

Finished(t) == tasks[t].st \in {"settled", "delivered"} /\ ~IsNull(tasks[t].res)

\* C1: at no instant are more than concurrentDownloads downloads in flight:
\* neither the inProgress set nor the set of downloadAsset calls that have
\* not been handed to their callback ever exceeds the cap, whatever the order
\* of completions and whatever the stylesheets add to the queue.
C1_ConcurrencyCap ==
    /\ Cardinality(inProgress) <= concurrentDownloads
    /\ Cardinality(Running) <= concurrentDownloads

\* The cap is reached while a URL added by a stylesheet waits in the queue.
C1_Witness ==
    /\ Cardinality(inProgress) = concurrentDownloads
    /\ Font \in Range(queue)
    /\ Len(assets) > concurrentDownloads

\* C2: every URL is admitted exactly once in a run of the scheduler: no two
\* downloadAsset calls are for the same URL, and when the scheduler returns
\* every URL of the seed list and every URL a stylesheet reported has been
\* admitted.
C2_ExactlyOnce ==
    /\ \A i, j \in 1..Len(tasks) : i # j => tasks[i].url # tasks[j].url
    /\ spc = "returned" =>
         /\ SeedUrls \subseteq AdmittedUrls
         /\ \A r \in BagToSet(results) :
              \A a \in Range(r.additionalAssets) : IsNull(a) \/ a \in AdmittedUrls

\* The scheduler returned from a seed list that names a.css twice, after both
\* stylesheets reported the font.
C2_Witness ==
    /\ spc = "returned"
    /\ \E i, j \in 1..Len(assets) : i # j /\ assets[i] = assets[j] /\ assets[i] = Css1
    /\ \E r1, r2 \in BagToSet(results) :
         /\ r1.url # r2.url
         /\ Font \in Range(r1.additionalAssets)
         /\ Font \in Range(r2.additionalAssets)

\* C4: an asset whose LocalPath existed under the output directory when it
\* was admitted is never requested from the network and never written, and
\* its result has status cached.
C4_CachedWithoutFetch ==
    \A t \in 1..Len(tasks) :
        tasks[t].existed =>
            /\ tasks[t].reqs = 0
            /\ ~tasks[t].wrote
            /\ Finished(t)
            /\ tasks[t].res.status = "cached"

\* A cached result has been handed to the scheduler.
C4_Witness ==
    \E t \in 1..Len(tasks) :
        /\ tasks[t].existed /\ tasks[t].st = "delivered"
        /\ tasks[t].res \in BagToSet(results)

WriteFailed(t) == tasks[t].res.status = "failed" /\ tasks[t].res.error = "EISDIR"

Stored(t) ==
    /\ tasks[t].res.status = "downloaded"
    /\ tasks[t].res.localPath \in DOMAIN disk
    /\ disk[tasks[t].res.localPath].src = tasks[t].url

\* C5 as stated: two failed attempts followed by a successful third give
\* status downloaded with the bytes at the LocalPath, and status failed is
\* recorded only after exactly maxRetries failed attempts.
C5_AsStated ==
    \A t \in 1..Len(tasks) :
        Finished(t) =>
            /\ (tasks[t].tries = maxRetries - 1 /\ tasks[t].reqs = maxRetries) => Stored(t)
            /\ tasks[t].res.status = "failed" => tasks[t].tries = maxRetries

\* C5, amended: the same, except that an asset whose bytes were fetched but
\* could not be written (its LocalPath names a directory) is recorded failed
\* whatever the number of failed attempts.
C5_RetryBound ==
    \A t \in 1..Len(tasks) :
        Finished(t) =>
            /\ (tasks[t].tries = maxRetries - 1 /\ tasks[t].reqs = maxRetries
                    /\ ~WriteFailed(t)) => Stored(t)
            /\ tasks[t].res.status = "failed" =>
                    (tasks[t].tries = maxRetries \/ WriteFailed(t))

\* An asset was stored by its third attempt, and another was recorded failed
\* after three failed attempts.
C5_Witness ==
    /\ \E t \in 1..Len(tasks) :
         Finished(t) /\ tasks[t].tries = maxRetries - 1 /\ Stored(t)
    /\ \E t \in 1..Len(tasks) :
         Finished(t) /\ tasks[t].res.status = "failed" /\ tasks[t].tries = maxRetries

\* C8: a URL that is not in the seed list is admitted only after a stylesheet
\* that refers to it was admitted earlier, fetched and stored, and its result
\* handed to the scheduler.
C8_CausalOrder ==
    \A t \in 1..Len(tasks) :
        tasks[t].url \notin SeedUrls =>
            \E c \in 1..Len(tasks) :
                /\ c < t
                /\ tasks[c].st = "delivered"
                /\ ~IsNull(tasks[c].res)
                /\ tasks[c].res.status = "downloaded"
                /\ tasks[c].wrote
                /\ tasks[t].url \in Range(extractCssAssets(Body(tasks[c].url), tasks[c].url))

\* The font, which only the stylesheets name, has been admitted.
C8_Witness ==
    \E t \in 1..Len(tasks) : tasks[t].url = Font /\ Font \notin SeedUrls

(***************************************************************************)
(* The scheduler given URLs that differ only in their fragment, as the     *)
(* font references url("f.woff") and url("f.woff#iefix") of a stylesheet   *)
(* do: both have the pathname of f.woff.                                   *)
(***************************************************************************)
FontFix == [Font EXCEPT !.frag = "iefix"]

CollideSeeds ==
    { << Font, FontFix, Gone, Font >>,
      << Css1, FontFix, Img, Js, CdnJs, FilesDir >>,
      << FontFix >>,
      << >> }

CollideInit ==
    /\ FnIdle /\ PagesIdle /\ RunIdle
    /\ site = NoSite
    /\ disk \in { EmptyDisk, DiskWith(Font) }
    /\ faults = MaxFaults
    /\ nFetch = 0
    /\ assets \in CollideSeeds
    /\ queue = assets
    /\ inProgress = {} /\ downloaded = {} /\ results = EmptyBag /\ tasks = << >>
    /\ spc = "fill" /\ raceSettled = FALSE

CollideSpec == CollideInit /\ [][SchedNext]_vars

InFlight == {t \in 1..Len(tasks) : tasks[t].st \in {"fetching", "backoff"}}

TargetOf(t) == getLocalPath(tasks[t].url, BookBase)

\* C15: two different URLs admitted by the scheduler never have the same
\* LocalPath: no two downloads in flight for different URLs write the same
\* file, and no URL is recorded cached on account of a file that was stored
\* for another URL.
C15_NoSharedPath ==
    /\ \A i, j \in 1..Len(tasks) :
         (/\ IsUrl(tasks[i].url) /\ IsUrl(tasks[j].url)
          /\ tasks[i].url # tasks[j].url) => TargetOf(i) # TargetOf(j)
    /\ \A i, j \in InFlight : i # j => TargetOf(i) # TargetOf(j)
    /\ \A t \in 1..Len(tasks) :
         tasks[t].existed => disk[TargetOf(t)].src = tasks[t].url

\* Two downloads for different URLs are in flight towards one file.
C15_Witness ==
    \E i, j \in InFlight :
        /\ tasks[i].url # tasks[j].url
        /\ TargetOf(i) = TargetOf(j)
        /\ ~Falsy(TargetOf(i))

(***************************************************************************)
(* References of stylesheets and the queue.                                *)
(***************************************************************************)
\* The url(...) and @import references of the stylesheet of task t that
\* resolve to a URL.
CssRefs(t) ==
    SelectSeq(extractCssAssets(Body(tasks[t].url), tasks[t].url),
              LAMBDA a : ~IsNull(a))

\* Task t was for a stylesheet and its result has one of the given statuses.
CssWith(t, statuses) ==
    /\ IsUrl(tasks[t].url) /\ ~IsNull(tasks[t].res)
    /\ tasks[t].res.status \in statuses
    /\ TargetOf(t).ext = "css"

\* The references of every delivered stylesheet with one of the statuses are
\* admitted or wait in the queue, and are admitted once the scheduler returns.
FoldedBack(statuses) ==
    \A t \in 1..Len(tasks) :
        CssWith(t, statuses) /\ tasks[t].st = "delivered" =>
            \A a \in Range(CssRefs(t)) :
                /\ a \in downloaded \/ a \in Range(queue)
                /\ spc = "returned" => a \in AdmittedUrls

\* The callback of a downloaded stylesheet appends its references that are
\* not in the downloaded set to the queue, in the order of the stylesheet.
PushedAtBack ==
    \A t \in 1..Len(tasks) :
        (/\ t <= Len(tasks') /\ tasks[t].st = "settled" /\ tasks'[t].st = "delivered"
         /\ CssWith(t, {"downloaded"}))
            => queue' = queue \o SelectSeq(CssRefs(t), LAMBDA a : a \notin downloaded)

\* C16 as stated: the references of every stylesheet the scheduler handled,
\* downloaded or cached, are pushed on the queue and admitted.
C16_AsStated == FoldedBack({"downloaded", "cached"})

\* C16, amended: the references of every stylesheet that was downloaded in
\* this run of the scheduler and that are not in the downloaded set are
\* pushed on the back of the queue by its callback, stay admitted or queued,
\* and are all admitted when the scheduler returns, which it can always go on
\* towards; a cached stylesheet reports no reference.
C16_DownloadedCssFoldedBack ==
    /\ [][PushedAtBack]_vars
    /\ [](FoldedBack({"downloaded"}))
    /\ [](spc # "returned" => ENABLED SchedNext)
    /\ [](\A t \in 1..Len(tasks) :
            CssWith(t, {"cached"}) => tasks[t].res.additionalAssets = << >>)

\* The scheduler has returned after a downloaded stylesheet put the font on
\* the queue, next to a stylesheet that was cached.
C16_Witness ==
    /\ spc = "returned"
    /\ \E t \in 1..Len(tasks) :
         /\ CssWith(t, {"downloaded"}) /\ Font \in Range(CssRefs(t))
         /\ Font \notin SeedUrls /\ Font \in AdmittedUrls
    /\ \E t \in 1..Len(tasks) : CssWith(t, {"cached"})

(***************************************************************************)
(* getLocalPath on its own: two URLs are classified against the book's     *)
(* base URL.  Queries are "v=" followed by up to MaxDigits digits 1 or 2   *)
(* (bytes 118 61 49 50), or absent.  A third argument is one that `new     *)
(* URL` rejects.                                                           *)
(***************************************************************************)
MaxDigits == 4

RECURSIVE DigitStrings(_)
DigitStrings(n) ==
    IF n = 0 THEN { << >> }
    ELSE LET shorter == DigitStrings(n - 1)
         IN  shorter \cup { Append(d, c) : d \in shorter, c \in {49, 50} }

Queries == { << >> } \cup { <<118, 61>> \o d : d \in DigitStrings(MaxDigits) }

ClassifyUrls ==
    { Url(host, BookDir \o <<"js">>, Name(stem), "js", q, "") :
        host \in {"site", "cdn"}, stem \in {"file", "m"}, q \in Queries }

\* Arguments that `new URL` rejects: null, which extractAssets may return,
\* and malformed text, which extractBookConfigAssets may return.
Unparsable == { NullV, RawText(BadHttpRef) }

PathInit ==
    /\ SchedIdle /\ PagesIdle /\ RunIdle
    /\ site = NoSite
    /\ disk = EmptyDisk /\ faults = 0 /\ nFetch = 0
    /\ call \in [op : {"classify"}, a : ClassifyUrls, b : ClassifyUrls,
                 c : Unparsable, base : {BookBase}]
    /\ ret = << >>

Classify ==
    /\ call.op = "classify" /\ ret = << >>
    /\ ret' = << getLocalPath(call.a, call.base), getLocalPath(call.b, call.base),
                 getLocalPath(call.c, call.base) >>
    /\ UNCHANGED <<call, envVars, schedVars, pageVars, runVars>>

PathNext == Classify

PathSpec == PathInit /\ [][PathNext]_vars

SamePath(a, b) == a.host = b.host /\ a.dir = b.dir /\ a.base = b.base /\ a.ext = b.ext

\* C10: two same-origin URLs with the same path and different query strings
\* are given different LocalPaths.
C10_DistinctQueries ==
    (/\ call.op = "classify" /\ ret # << >>
     /\ call.a.host = call.base.host
     /\ SamePath(call.a, call.b)
     /\ call.a.query # call.b.query)
        => ret[1] # ret[2]

Classified == call.op = "classify" /\ ret # << >>

\* pathname without its leading slash
PlainPath(u) == LocalPath(u.dir, u.base, u.ext)

\* `external/${host}${pathname}`
UnderExternal(u) == LocalPath(<<"external", u.host>> \o u.dir, u.base, u.ext)

\* The path with "_<hash of the search string>" between name and extension.
SuffixedPath(u) ==
    LocalPath(u.dir, [stem |-> u.base.stem,
                      tags |-> Append(u.base.tags, QueryHash(Search(u)))], u.ext)

PlacedAsStated(u, base, p) ==
    IF u.host = base.host THEN p = PlainPath(u) ELSE p = UnderExternal(u)

PlacedByHost(u, base, p) ==
    IF u.host # base.host THEN p = UnderExternal(u)
    ELSE IF u.query = << >> THEN p = PlainPath(u)
    ELSE p = SuffixedPath(u)

\* C18 as stated: a URL on the base URL's host maps to its path without the
\* leading slash, a URL on any other host to external/<host>/<path>, and an
\* argument that does not parse to null.
C18_AsStated ==
    Classified =>
        /\ PlacedAsStated(call.a, call.base, ret[1])
        /\ PlacedAsStated(call.b, call.base, ret[2])
        /\ IsNull(ret[3])

\* C18, amended: the same, except that a URL on the base URL's host that has
\* a query maps to its path with the hash of the query added to the file
\* name.
C18_PlacedByHost ==
    Classified =>
        /\ PlacedByHost(call.a, call.base, ret[1])
        /\ PlacedByHost(call.b, call.base, ret[2])
        /\ IsNull(ret[3])

\* A URL of the book's host, a URL of another host and malformed text have
\* been classified.
C18_Witness ==
    /\ Classified
    /\ call.a.host = call.base.host /\ call.a.query = << >> /\ ret[1] = PlainPath(call.a)
    /\ call.b.host # call.base.host /\ ret[2].dir[1] = "external"
    /\ ~IsNull(call.c) /\ IsNull(ret[3])

\* C19: every URL with a query string, on the base URL's host or on another,
\* is given a file name suffixed with a hash of the query, and two URLs that
\* differ only in their query are given different LocalPaths.
C19_QueryAlwaysHashed ==
    Classified =>
        /\ call.a.query # << >> => ret[1].base.tags # << >>
        /\ call.b.query # << >> => ret[2].base.tags # << >>
        /\ (SamePath(call.a, call.b) /\ call.a.query # call.b.query) => ret[1] # ret[2]

\* Two URLs of another host, q.js?v=1 and q.js?v=2, are given one LocalPath
\* without a suffix.
C19_Witness ==
    /\ Classified
    /\ call.a.host # call.base.host /\ SamePath(call.a, call.b)
    /\ call.a.query = <<118, 61, 49>> /\ call.b.query = <<118, 61, 50>>
    /\ ret[1] = ret[2] /\ ret[1].base.tags = << >>

(***************************************************************************)
(* rewriteUrls on its own: a document of at most MaxDocLen tokens is       *)
(* rewritten, and the output is rewritten again.                           *)
(***************************************************************************)
MaxDocLen == 2

WithQuery(u, q) == [u EXCEPT !.query = q]

\* "/": the site's root, whose LocalPath is the empty string.
SiteRootRef == Ref("root", "", << >>, NoName, "", << >>, "")

RefPool ==
    { AbsRef(Img), AbsRef(WithQuery(Js, <<118, 61, 49>>)),
      RootRef(BookDir \o <<"img">>, "p", "png"), RelRef(<<"css">>, "a", "css"),
      AbsRef(CdnJs), DataRef, FragRef, BadRef, SiteRootRef }

DocTokens ==
    { Attr("src", r) : r \in RefPool } \cup { CssUrl("", r) : r \in RefPool }
        \cup { Text("x") }

RECURSIVE DocsUpTo(_)
DocsUpTo(n) ==
    IF n = 0 THEN { << >> }
    ELSE LET shorter == DocsUpTo(n - 1)
         IN  shorter \cup { Append(d, tok) : d \in shorter, tok \in DocTokens }

RewriteInit ==
    /\ SchedIdle /\ PagesIdle /\ RunIdle
    /\ site = NoSite
    /\ disk = EmptyDisk /\ faults = 0 /\ nFetch = 0
    /\ call \in [op : {"rewrite"}, doc : DocsUpTo(MaxDocLen) \ { << >> },
                 base : {BookBase, Css1}, isHtml : BOOLEAN]
    /\ ret = << >>

\* One more pass over the latest text.
RewritePass ==
    /\ call.op = "rewrite" /\ Len(ret) < 2
    /\ ret' = Append(ret, rewriteUrls(IF ret = << >> THEN call.doc ELSE Last(ret),
                                      call.base, call.isHtml))
    /\ UNCHANGED <<call, envVars, schedVars, pageVars, runVars>>

RewriteNext == RewritePass

RewriteSpec == RewriteInit /\ [][RewriteNext]_vars

\* The references the pass of the given dialect looks at.
Seen(tok, isHtml) == IF isHtml THEN tok.t = "attr" ELSE tok.t = "url"

OnlySameOrigin(doc, base, isHtml) ==
    \A i \in 1..Len(doc) :
        Seen(doc[i], isHtml) =>
            /\ IsUrl(resolveUrl(doc[i].val, base))
            /\ resolveUrl(doc[i].val, base).host = base.host

\* C9: for a document that refers only to same-origin assets, the second
\* rewrite pass returns the output of the first pass unchanged.
C9_FixedPoint ==
    (/\ call.op = "rewrite" /\ Len(ret) = 2
     /\ OnlySameOrigin(call.doc, call.base, call.isHtml))
        => ret[2] = ret[1]

\* The reference of the token cannot be rewritten: resolveUrl gives null, or
\* getLocalPath gives null or the empty string.
NotRewritable(tok, base) ==
    \/ IsNull(resolveUrl(tok.val, base))
    \/ Falsy(getLocalPath(resolveUrl(tok.val, base), base))

FirstPassDone == call.op = "rewrite" /\ Len(ret) >= 1

\* C20: the HTML and the CSS pass fail open: a matched reference for which
\* resolveUrl or getLocalPath gives nothing is left exactly as it was, every
\* other matched reference of the document is replaced by its LocalPath, what
\* the pass does not match is unchanged, and the pass always returns the
\* whole document.
C20_FailOpen ==
    FirstPassDone =>
        /\ Len(ret[1]) = Len(call.doc)
        /\ \A i \in 1..Len(call.doc) :
             LET tok == call.doc[i]
             IN  IF ~Seen(tok, call.isHtml) THEN ret[1][i] = tok
                 ELSE IF NotRewritable(tok, call.base) THEN ret[1][i] = tok
                 ELSE ret[1][i].val =
                        AsRef(getLocalPath(resolveUrl(tok.val, call.base), call.base))

\* A document with a reference that cannot be rewritten before one that can:
\* the first is unchanged, the second is rewritten.
C20_Witness ==
    /\ FirstPassDone /\ Len(call.doc) = 2
    /\ Seen(call.doc[1], call.isHtml) /\ Seen(call.doc[2], call.isHtml)
    /\ call.doc[1].val \in {FragRef, BadRef}
    /\ ret[1][1] = call.doc[1]
    /\ ~NotRewritable(call.doc[2], call.base)
    /\ ret[1][2] # call.doc[2]

(***************************************************************************)
(* rewriteJsonUrls on its own: a JSON value nested up to MaxJsonDepth deep, *)
(* or the same text cut short so that JSON.parse rejects it.               *)
(***************************************************************************)
MaxJsonDepth == 2

JsonLeaves ==
    { Str(AbsRef(Img)), Str(AbsRef(CdnJs)), Str(RelRef(<<"img">>, "p", "png")),
      Str(BadHttpRef), Lit("1") }

RECURSIVE JsonValues(_)
JsonValues(d) ==
    IF d = 0 THEN JsonLeaves
    ELSE LET inner == JsonValues(d - 1)
         IN  JsonLeaves \cup { Arr(<< v >>) : v \in inner }
                \cup { Arr(<< v, w >>) : v \in inner, w \in JsonLeaves }

JsonDocs ==
    { << v >> : v \in JsonValues(MaxJsonDepth) }
        \cup { << Text("{"), v >> : v \in JsonValues(MaxJsonDepth) }

JsonBook == parseFlipHTML5Url(Url("site", <<"app">>, Name("book"), "", << >>, ""))

JsonInit ==
    /\ SchedIdle /\ PagesIdle /\ RunIdle
    /\ site = NoSite
    /\ disk = EmptyDisk /\ faults = 0 /\ nFetch = 0
    /\ call \in [op : {"json"}, doc : JsonDocs, base : {BookBase}]
    /\ ret = << >>

\* rewriteJsonUrls(content, baseUrl, bookInfo) (line 819)
JsonPass ==
    /\ call.op = "json" /\ ret = << >>
    /\ ret' = << rewriteJsonUrls(call.doc, call.base, JsonBook) >>
    /\ UNCHANGED <<call, envVars, schedVars, pageVars, runVars>>

JsonNext == JsonPass

JsonSpec == JsonInit /\ [][JsonNext]_vars

\* The string is an absolute http(s) URL that has a LocalPath.
IsHttpUrlString(tok) ==
    /\ tok.t = "str" /\ tok.val.form = "abs"
    /\ ~Falsy(getLocalPath(resolveUrl(tok.val, JsonBook.baseUrl), JsonBook.baseUrl))

\* out is the value old with every string that is an absolute URL replaced
\* by its LocalPath, and nothing else changed.
RECURSIVE OnlyUrlsReplaced(_, _)
OnlyUrlsReplaced(old, out) ==
    IF old.t = "arr"
    THEN /\ out.t = "arr" /\ Len(out.val) = Len(old.val)
         /\ \A i \in 1..Len(old.val) : OnlyUrlsReplaced(old.val[i], out.val[i])
    ELSE IF IsHttpUrlString(old)
    THEN out = Str(AsRef(getLocalPath(resolveUrl(old.val, JsonBook.baseUrl),
                                      JsonBook.baseUrl)))
    ELSE out = old

JsonPassDone == call.op = "json" /\ ret # << >>

\* C21: the JSON pass replaces every string value that is an absolute
\* http(s) URL by its LocalPath, at any depth of arrays and objects, and
\* leaves every other value, relative paths of assets among them, as it is;
\* content that is not JSON is returned unchanged.
C21_JsonOnlyUrls ==
    JsonPassDone =>
        IF IsJson(call.doc)
        THEN /\ Len(ret[1]) = Len(call.doc)
             /\ \A i \in 1..Len(call.doc) : OnlyUrlsReplaced(call.doc[i], ret[1][i])
        ELSE ret[1] = call.doc

\* [[ "https://site/app/book/img/p.png", "img/p.png" ]] after the pass: the
\* URL two arrays deep is replaced, the relative path next to it is kept.
C21_Witness ==
    /\ JsonPassDone
    /\ call.doc = << Arr(<< Arr(<< Str(AbsRef(Img)) >>),
                           Str(RelRef(<<"img">>, "p", "png")) >>) >>
    /\ ret[1][1].val[1].val[1] = Str(AsRef(getLocalPath(Img, BookBase)))
    /\ ret[1][1].val[2] = Str(RelRef(<<"img">>, "p", "png"))

(***************************************************************************)
(* The extractors on their own, and the rewrite pass over the same text: a *)
(* document of at most MaxExtractLen tokens, or the page of three          *)
(* references, is scanned as a page, as a stylesheet or as a config file,  *)
(* and then rewritten as index.html or as a stylesheet is.                 *)
(***************************************************************************)
MaxExtractLen == 3

StyleCss == Url("site", <<"app">>, Name("style"), "css", << >>, "")

\* <link href="https://site/app/style.css">
LinkAbs == TagAttr("link", "href", AbsRef(StyleCss))

\* <img src="/app/logo.png">
ImgRoot == TagAttr("img", "src", RootRef(<<"app">>, "logo", "png"))

\* style='background: url("fonts/a.woff2")'
StyleUrl == CssUrl("dq", RelRef(<<"fonts">>, "a", "woff2"))

\* src="#icon.png", url(#top), "http://[x/a.png", @import "<malformed>"
FragImg == Attr("src", Ref("frag", "", << >>, Name("icon"), "png", << >>, ""))

BadHttpStr == Str(BadHttpRef)

ExtractTokens ==
    { LinkAbs, ImgRoot, StyleUrl, Text("p"), FragImg, CssUrl("", FragRef),
      BadHttpStr, Import(BadRef) }

ThreeRefDoc == << LinkAbs, Text("p"), ImgRoot, StyleUrl >>

RECURSIVE ExtractDocs(_)
ExtractDocs(n) ==
    IF n = 0 THEN { << >> }
    ELSE LET shorter == ExtractDocs(n - 1)
         IN  shorter \cup { Append(d, tok) : d \in shorter, tok \in ExtractTokens }

ExtractInit ==
    /\ SchedIdle /\ PagesIdle /\ RunIdle
    /\ site = NoSite
    /\ disk = EmptyDisk /\ faults = 0 /\ nFetch = 0
    /\ call \in [op : {"extract"}, kind : {"html", "css", "config"},
                 doc : ExtractDocs(MaxExtractLen) \cup {ThreeRefDoc},
                 base : {BookBase}]
    /\ ret = << >>

\* extractAssets(htmlContent, baseUrl) (line 752), extractCssAssets(content,
\* assetUrl) (line 361), extractBookConfigAssets(content, configUrl) (line 554)
ExtractCall ==
    /\ call.op = "extract" /\ ret = << >>
    /\ ret' = << CASE call.kind = "html" -> extractAssets(call.doc, call.base)
                   [] call.kind = "css"  -> extractCssAssets(call.doc, call.base)
                   [] OTHER -> extractBookConfigAssets(call.doc, call.base) >>
    /\ UNCHANGED <<call, envVars, schedVars, pageVars, runVars>>

\* rewriteUrls(htmlContent, baseUrl, true) (line 776), rewriteUrls(content,
\* cssBaseUrl, false) (line 788)
RewriteCall ==
    /\ call.op = "extract" /\ Len(ret) = 1 /\ call.kind \in {"html", "css"}
    /\ ret' = Append(ret, rewriteUrls(call.doc, call.base, call.kind = "html"))
    /\ UNCHANGED <<call, envVars, schedVars, pageVars, runVars>>

ExtractNext == ExtractCall \/ RewriteCall

ExtractSpec == ExtractInit /\ [][ExtractNext]_vars

\* The LocalPath of the asset a reference of the page stands for.
LocalRefOf(ref, base) == AsRef(getLocalPath(resolveUrl(ref, base), base))

PageOfThreeRefs == call.op = "extract" /\ call.kind = "html" /\ call.doc = ThreeRefDoc

\* C12: for the page with a link href holding an absolute same-origin URL, an
\* img src holding a root-relative path and a relative url(...) in an inline
\* style, extractAssets returns exactly the three absolute URLs, and the HTML
\* rewrite pass replaces each of the three references by the LocalPath of its
\* asset and changes no other text.
C12_ThreeRefsRewritten ==
    PageOfThreeRefs =>
        /\ Len(ret) >= 1 =>
              /\ Len(ret[1]) = 3
              /\ Range(ret[1]) = { resolveUrl(LinkAbs.val, call.base),
                                   resolveUrl(ImgRoot.val, call.base),
                                   resolveUrl(StyleUrl.val, call.base) }
        /\ Len(ret) = 2 =>
              /\ Len(ret[2]) = Len(call.doc)
              /\ \A i \in 1..Len(call.doc) :
                    IF HasRef(call.doc[i])
                    THEN ret[2][i].val = LocalRefOf(call.doc[i].val, call.base)
                    ELSE ret[2][i] = call.doc[i]

\* The page of three references after extraction and the rewrite pass: the
\* three URLs are extracted, both attributes are rewritten.
C12_Witness ==
    /\ PageOfThreeRefs /\ Len(ret) = 2
    /\ Len(ret[1]) = 3 /\ \A i \in 1..3 : IsUrl(ret[1][i])
    /\ ret[2][1].val = LocalRefOf(LinkAbs.val, call.base)
    /\ ret[2][3].val = LocalRefOf(ImgRoot.val, call.base)
    /\ ret[2][4] = StyleUrl

NoDuplicates(list) ==
    \A i \in 1..Len(list) : \A j \in 1..Len(list) : list[i] = list[j] => i = j

\* C17: every extractor returns a list without duplicates in which every
\* element is an absolute URL; a reference for which resolveUrl yields null
\* does not appear in it.
C17_OnlyAbsoluteUrls ==
    (call.op = "extract" /\ Len(ret) >= 1) =>
        /\ NoDuplicates(ret[1])
        /\ \A i \in 1..Len(ret[1]) : IsUrl(ret[1][i])

\* A stylesheet with url(#top) and a url(...) that resolves, scanned.
C17_Witness ==
    /\ call.op = "extract" /\ call.kind = "css" /\ Len(ret) >= 1
    /\ \E i \in 1..Len(call.doc) : call.doc[i] = CssUrl("", FragRef)
    /\ \E i \in 1..Len(ret[1]) : IsNull(ret[1][i])
    /\ \E i \in 1..Len(ret[1]) : IsUrl(ret[1][i])
    /\ NoDuplicates(ret[1])

(***************************************************************************)
(* Properties of the whole run.                                            *)
(***************************************************************************)
SecondRun == runNo >= 2

StoredBefore(u) ==
    \E r \in BagToSet(prevResults) : r.url = u /\ r.status \in {"downloaded", "cached"}

\* C3 as stated: a second run on the same origin and output folder issues no
\* network request, and every asset it handles resolves to status cached.
C3_SecondRunOffline ==
    SecondRun =>
        /\ nFetch = 0
        /\ \A t \in 1..Len(tasks) :
             ~IsNull(tasks[t].res) => tasks[t].res.status = "cached"

\* The requests of a run that has got as far as its report.
C3_SecondRunFetches ==
    /\ SecondRun /\ phase = "done"
    /\ nFetch > 0
    /\ \E t \in 1..Len(tasks) : tasks[t].res.status = "cached" /\ StoredBefore(tasks[t].url)
    /\ \E t \in 1..Len(tasks) : tasks[t].res.status = "failed"

\* Every attempt of the task's fetch failed.
Exhausted(t) == tasks[t].tries = maxRetries

\* The task's last request was answered and its file was not written.
WriteThrew(t) ==
    /\ tasks[t].st # "fetching" /\ tasks[t].st # "backoff"
    /\ tasks[t].tries < tasks[t].reqs
    /\ ~tasks[t].wrote

SomeFailure == \E t \in 1..Len(tasks) : Exhausted(t) \/ WriteThrew(t)

FailureRecorded(t) ==
    /\ ~IsNull(tasks[t].res)
    /\ tasks[t].res.status = "failed"
    /\ tasks[t].res.error # ""

AllHandled ==
    /\ queue = << >> /\ inProgress = {}
    /\ \A i \in 1..Len(assets) : assets[i] \in downloaded
    /\ \A t \in 1..Len(tasks) : tasks[t].st = "delivered"
    /\ \A t \in 1..Len(tasks) :
         ~IsNull(tasks[t].res) /\ tasks[t].res.hasAdditional =>
            \A i \in 1..Len(tasks[t].res.additionalAssets) :
                IsNull(tasks[t].res.additionalAssets[i])
                    \/ tasks[t].res.additionalAssets[i] \in downloaded

ReportWritten ==
    /\ ppc = "done"
    /\ IndexPath \in DOMAIN disk /\ VerifyPath \in DOMAIN disk
    /\ stats # NoStats
    /\ stats.failed = Cardinality({t \in 1..Len(tasks) : FailureRecorded(t)})

\* C6: an asset whose fetch fails maxRetries times, or whose write fails,
\* gets a result with status failed and the error message; after such a
\* failure the run is never aborted and never stuck short of its report, the
\* scheduler returns only when every seed and every discovered URL has been
\* admitted and delivered, and a run that has returned has gone through the
\* prober and the rewriter and has written its report.
C6_FailureNeverAborts ==
    /\ \A t \in 1..Len(tasks) :
         Exhausted(t) \/ WriteThrew(t) => FailureRecorded(t)
    /\ SomeFailure => phase # "aborted"
    /\ SomeFailure => phase = "done" \/ ENABLED Next
    /\ SomeFailure /\ spc = "returned" => AllHandled
    /\ SomeFailure /\ phase = "done" => ReportWritten

\* A run reported with a failed fetch and a failed write among its results.
C6_Witness ==
    /\ phase = "done" /\ ReportWritten
    /\ \E t \in 1..Len(tasks) : Exhausted(t) /\ FailureRecorded(t)
    /\ \E t \in 1..Len(tasks) : WriteThrew(t) /\ FailureRecorded(t)
    /\ \E t \in 1..Len(tasks) : tasks[t].res.status = "downloaded"

(***************************************************************************)
(* getLocalPath as a function of its arguments.                            *)
(***************************************************************************)
\* The path a task's result holds was computed when the task was admitted or
\* when its bytes were stored; the result of a failure holds no path.
HasPath(r) == ~IsNull(r) /\ r.status # "failed"

PathOf(t) == tasks[t].res.localPath

ExitCode == IF phase = "aborted" THEN 1 ELSE IF phase = "done" THEN 0 ELSE -1

\* The book URL was rejected, or the request for the main page has failed
\* maxRetries times.
FatalCause == IsNull(bookInfo) \/ (phase \in {"entry", "aborted"} /\ ftries = maxRetries)

NothingStarted ==
    /\ spc = "idle" /\ tasks = << >> /\ downloaded = {}
    /\ ppc = "idle" /\ downloadedPages = << >>
    /\ stats = NoStats

\* The last of the maxRetries requests for the main page fails.
LastEntryAttemptFails ==
    /\ phase = "entry" /\ ftries = maxRetries - 1
    /\ ~Served(BookBase) \/ faults' < faults

\* A step taken before the main page has arrived writes nothing and starts
\* nothing.
BeforeAssets ==
    phase \in {"start", "entry"} => disk' = disk /\ NothingStarted'

\* C13: a book URL that does not parse or has fewer than two path segments,
\* and a main page whose fetch fails maxRetries times, end the run with exit
\* code 1 at once: the scheduler, the prober, the rewriter and the report
\* have not run, and the run has written nothing, so neither index.html nor
\* verify.html.
C13_FatalAbort ==
    /\ [](phase = "aborted" /\ FatalCause => ExitCode = 1 /\ NothingStarted)
    /\ [](phase = "aborted" /\ FatalCause /\ runNo = 1 =>
            IndexPath \notin DOMAIN disk /\ VerifyPath \notin DOMAIN disk)
    /\ [][phase = "start" /\ IsNull(bookInfo) => phase' = "aborted"]_vars
    /\ [][LastEntryAttemptFails => phase' = "aborted"]_vars
    /\ [][BeforeAssets]_vars

\* The main page could not be fetched in maxRetries attempts.
C13_Witness ==
    /\ phase = "aborted" /\ ~IsNull(bookInfo)
    /\ ftries = maxRetries /\ nFetch = maxRetries
    /\ ExitCode = 1 /\ NothingStarted

(***************************************************************************)
(* Order of the phases of a run (lines 767-837).                           *)
(***************************************************************************)
RewritePhases == {"rewriteCss", "rewriteJs", "rewriteJson"}

RewrittenExts == {"css", "js", "json"}

SchedulerReturned ==
    /\ spc = "returned" /\ queue = << >> /\ inProgress = {}
    /\ \A t \in 1..Len(tasks) : tasks[t].st = "delivered"

ProberHalted == ppc = "done"

\* A step that rewrites a file: index.html is written on entering the phase
\* rewriteCss, and a pass over a stored file adds one to its count of passes.
PassRuns ==
    \/ phase' = "rewriteCss" /\ phase # "rewriteCss"
    \/ \E p \in DOMAIN disk \cap DOMAIN disk' : disk'[p].passes > disk[p].passes

\* The phase a phase is entered from.
ComesFrom(ph) ==
    CASE ph = "rewriteCss"  -> "pages"
      [] ph = "rewriteJs"   -> "rewriteCss"
      [] ph = "rewriteJson" -> "rewriteJs"
      [] ph = "report"      -> "rewriteJson"
      [] OTHER              -> "report"

InOrder ==
    phase' # phase /\ phase' \in RewritePhases \cup {"report", "done"}
        => phase = ComesFrom(phase')

\* C14: no file is rewritten before the scheduler has returned with an empty
\* queue and no download in flight and the prober has halted, neither of them
\* takes a step while the passes run, and verify.html is written after the
\* passes over index.html, the CSS, the JS and the JSON files, in this order.
C14_PhaseOrder ==
    /\ [][PassRuns => SchedulerReturned /\ ProberHalted]_vars
    /\ [](phase \in RewritePhases \cup {"report"} => SchedulerReturned /\ ProberHalted)
    /\ [][InOrder]_vars
    /\ [](phase \in {"report", "done"} =>
            /\ IndexPath \in DOMAIN disk
            /\ \A p \in DOMAIN disk : p.ext \in RewrittenExts => disk[p].passes >= 1)
    /\ [](VerifyPath \in DOMAIN disk /\ runNo = 1 => phase = "done")

\* The report of a run that has stored and rewritten a stylesheet and a
\* script and has stored page images.
C14_Witness ==
    /\ phase = "done" /\ runNo = 1 /\ VerifyPath \in DOMAIN disk
    /\ \E p \in DOMAIN disk : p.ext = "css" /\ disk[p].passes = 1
    /\ \E p \in DOMAIN disk : p.ext = "js" /\ disk[p].passes = 1
    /\ Len(downloadedPages) > 0 /\ Len(tasks) > 0

\* The run has returned normally (exit code 0).
RunSucceeded == ExitCode = 0

\* The stored file is what the HTML pass makes of the body the origin sent.
HtmlPassed(p, sent) ==
    p \in DOMAIN disk /\ disk[p].doc = rewriteUrls(sent, BookBase, TRUE)

\* Every stored CSS, JS and JSON file has been through its pass once in
\* each run that reached the passes since the file was stored.
DialectFilesPassed ==
    \A p \in DOMAIN disk : p.ext \in RewrittenExts => disk[p].passes \in 1..runNo

\* C25: after a run that ends with exit code 0, index.html, and mobile.html
\* when the origin serves it, hold the output of the HTML pass, and every
\* stored CSS, JS and JSON file has been through the pass of its dialect.
C25_AllTextRewritten ==
    RunSucceeded =>
        /\ HtmlPassed(IndexPath, htmlContent)
        /\ (site.mobile /\ MobilePath \in DOMAIN disk
                => HtmlPassed(MobilePath, Body(MobileUrl)))
        /\ DialectFilesPassed

\* What the passes do reach: index.html and the CSS, JS and JSON files.
C25_IndexAndDialects ==
    RunSucceeded => HtmlPassed(IndexPath, htmlContent) /\ DialectFilesPassed

\* A run that ended with exit code 0 and left mobile.html as the origin
\* sent it, its references still pointing at the origin.
C25_MobileLeftRaw ==
    /\ RunSucceeded /\ site.mobile /\ site.entry = "page"
    /\ MobilePath \in DOMAIN disk
    /\ disk[MobilePath].doc = MobileDoc
    /\ disk[MobilePath].doc # rewriteUrls(MobileDoc, BookBase, TRUE)
    /\ HtmlPassed(IndexPath, htmlContent)

(***************************************************************************)
(* The report (part_002:828-860 and createVerificationPage, 636-718).      *)
(***************************************************************************)
\* Line 856: slice(0, 10)
MaxFailedShown == 10

\* Line 710: stats.files.slice(0, 100)
MaxFilesShown == 100

FailedResults == { r \in BagToSet(results) : r.status = "failed" }

\* Line 832: results.filter(r => r.localPath).map(r => r.localPath)
StatsFiles == { r.localPath : r \in { x \in BagToSet(results) : ~Falsy(x.localPath) } }

\* The first n members of a set, in some order, or all of it.
Truncated(S, n) ==
    IF Cardinality(S) <= n THEN S
    ELSE CHOOSE T \in SUBSET S : Cardinality(T) = n

\* Lines 854-859: the lines "  - <url>: <error>" of the console summary.
ConsoleFailedList ==
    IF stats.failed > 0
    THEN { [url |-> r.url, error |-> r.error] : r \in Truncated(FailedResults, MaxFailedShown) }
    ELSE {}

\* The values createVerificationPage interpolates into verify.html: the
\* four counts (lines 663-676) and the stored files (lines 709-712).
VerifyPage ==
    [downloaded |-> stats.downloaded, cached |-> stats.cached,
     failed |-> stats.failed, pages |-> stats.pages,
     files |-> Truncated(StatsFiles, MaxFilesShown)]

\* verify.html shows the URL and the error of the failed result r.
ShownInVerifyPage(r) ==
    \E f \in VerifyPage.files : f.k = "url" /\ f = r.url

ShownOnConsole(r) == [url |-> r.url, error |-> r.error] \in ConsoleFailedList

CountsAddUp ==
    stats.downloaded + stats.cached + stats.failed = BagCardinality(results)

\* C26: the counts of the report add up to the number of scheduler
\* results, and when an asset failed, the failed URLs (the first ones when
\* they are many) are listed with their errors both in the console summary
\* and in verify.html.
C26_FailuresInBothReports ==
    RunSucceeded =>
        /\ CountsAddUp
        /\ (stats.failed > 0 =>
                /\ Cardinality(ConsoleFailedList) <= MaxFailedShown
                /\ \E r \in FailedResults : ShownOnConsole(r) /\ ShownInVerifyPage(r))

\* What the report does give: counts that add up, and the failed URLs on
\* the console.
C26_CountsAndConsole ==
    RunSucceeded =>
        /\ CountsAddUp
        /\ VerifyPage.failed = stats.failed
        /\ (stats.failed > 0 => \A r \in FailedResults : ShownOnConsole(r))

\* A run that ended with one failed asset: the console names it, verify.html
\* gives the count 1 and the stored files only.
C26_FailureOnlyOnConsole ==
    /\ RunSucceeded /\ stats.failed = 1
    /\ \E r \in FailedResults :
            /\ ShownOnConsole(r) /\ ~ShownInVerifyPage(r)
            /\ r.error = "HTTP 404"
    /\ VerifyPage.failed = 1 /\ VerifyPage.files # {}

(***************************************************************************)
(* The CSS pass against the files the scheduler stored.                    *)
(***************************************************************************)
\* The stylesheets the scheduler downloaded in this run, after one pass.
DownloadedCss ==
    { p \in DOMAIN disk :
        /\ p.ext = "css" /\ disk[p].passes = 1
        /\ \E t \in 1..Len(tasks) : Stored(t) /\ tasks[t].res.localPath = p }

\* The url(...) references of the stylesheet stored at p, as the origin
\* sent them, whose asset (resolved as extractCssAssets resolves it, against
\* the stylesheet's URL, line 362) the scheduler stored.
StoredUrlRefs(p) ==
    { i \in 1..Len(Body(disk[p].src)) :
        LET tok == Body(disk[p].src)[i]
            a   == resolveUrl(tok.val, disk[p].src)
        IN  /\ tok.t = "url" /\ ~IsNull(a)
            /\ ~Falsy(getLocalPath(a, BookBase))
            /\ getLocalPath(a, BookBase) \in DOMAIN disk
            /\ disk[getLocalPath(a, BookBase)].src = a }

\* The file of the output directory that a reference written in the file
\* at p denotes when it is read relative to that file's location.
ReadFrom(p, ref) ==
    IF ref.form = "rel" THEN LocalPath(p.dir \o ref.dir, ref.base, ref.ext)
    ELSE IF ref.form = "root" THEN LocalPath(ref.dir, ref.base, ref.ext)
    ELSE NullV

\* The file under which the scheduler stored the asset of reference i.
AssetFileOf(p, i) ==
    getLocalPath(resolveUrl(Body(disk[p].src)[i].val, disk[p].src), BookBase)

\* C27: for every url(...) reference of a stylesheet the scheduler
\* downloaded, the CSS pass resolves the reference against the stylesheet's
\* own URL, as extractCssAssets did, and the path it substitutes, read
\* relative to the stylesheet's location, is the file the asset was stored
\* under.
C27_CssRefsReachAssets ==
    RunSucceeded =>
        \A p \in DownloadedCss :
            /\ FileBase(p) = disk[p].src
            /\ \A i \in StoredUrlRefs(p) :
                    /\ disk[p].doc[i].t = "url"
                    /\ ReadFrom(p, disk[p].doc[i].val) = AssetFileOf(p, i)

\* a.css was stored at app/book/css/a.css and its font at
\* app/book/css/f.woff; after the pass a.css refers to
\* url("app/book/app/book/css/f.woff").
C27_FontRefBroken ==
    LET p == getLocalPath(Css1, BookBase)
    IN  /\ RunSucceeded /\ p \in DownloadedCss /\ 1 \in StoredUrlRefs(p)
        /\ AssetFileOf(p, 1) = LocalPath(BookDir \o <<"css">>, Name("f"), "woff")
        /\ FileBase(p) = Url("site", BookDir \o BookDir \o <<"css">>, Name("a"), "css", << >>, "")
        /\ disk[p].doc[1] =
              CssUrl("dq", AsRef(LocalPath(BookDir \o BookDir \o <<"css">>, Name("f"), "woff")))

(***************************************************************************)
(* Termination of the scheduler.  Every fetch completes: a request is      *)
(* answered or fails, a retry timer fires, a settled promise's callback    *)
(* runs; so a step that is possible is eventually taken.                   *)
(***************************************************************************)
SchedFairSpec == SchedSpec /\ WF_vars(SchedNext)

\* The URLs that callbacks have found in the stylesheets delivered so far.
Discovered ==
    UNION { { a \in Range(r.additionalAssets) : ~IsNull(a) } : r \in BagToSet(results) }

\* A URL of the seed list or found by a callback is in the queue or has
\* been admitted.
NothingLost ==
    /\ Discovered \subseteq (downloaded \cup Range(queue))
    /\ SeedUrls \subseteq (downloaded \cup Range(queue))

ReturnedClean ==
    spc = "returned" =>
        /\ queue = << >> /\ inProgress = {} /\ Running = {}
        /\ SeedUrls \subseteq downloaded
        /\ Discovered \subseteq downloaded
        /\ downloaded = AdmittedUrls

\* C28: the scheduler loop terminates when every fetch completes; when it
\* returns the queue is empty, nothing is in flight and every URL that was
\* pushed has been admitted; a URL found by a download that completes while
\* others are in flight is queued and not lost.
C28_SchedulerTerminates ==
    /\ <>(spc = "returned")
    /\ []ReturnedClean
    /\ []NothingLost

\* The callback of a.css has queued the font while other downloads are
\* still in flight and the loop is suspended.
C28_Witness ==
    /\ spc = "await" /\ Cardinality(inProgress) >= 2
    /\ Font \in Discovered /\ Font \notin SeedUrls
    /\ Font \in Range(queue) /\ Font \notin downloaded
    /\ \E o \in inProgress : tasks[o].st = "fetching"

(***************************************************************************)
(* Results against admitted entries.                                       *)
(***************************************************************************)
ResultsFor(u) == { r \in BagToSet(results) : r.url = u }

\* The admitted entry u has exactly one result, with one of the three
\* statuses.
CountedOnce(u) ==
    /\ Cardinality(ResultsFor(u)) = 1
    /\ \A r \in ResultsFor(u) :
            /\ CopiesIn(r, results) = 1
            /\ r.status \in {"downloaded", "cached", "failed"}

\* C29: when the scheduler returns, every admitted entry, a null or
\* unparseable one included, has exactly one result with status downloaded,
\* cached or failed, and there are as many results as admitted entries.
C29_OneResultPerAdmitted ==
    spc = "returned" =>
        /\ \A u \in downloaded : CountedOnce(u)
        /\ BagCardinality(results) = Cardinality(downloaded)

\* What holds: every admitted entry that has a LocalPath is counted once.
C29_OneResultPerPlaceable ==
    spc = "returned" =>
        /\ \A u \in downloaded : ~Falsy(getLocalPath(u, BookBase)) => CountedOnce(u)
        /\ BagCardinality(results) =
              Cardinality({ u \in downloaded : ~Falsy(getLocalPath(u, BookBase)) })

\* The scheduler returned from a seed list with a null entry: the entry is
\* in the downloaded set and has no result, so the results are one fewer.
C29_NullDropped ==
    /\ spc = "returned" /\ NullV \in downloaded
    /\ ResultsFor(NullV) = {}
    /\ \E t \in 1..Len(tasks) : tasks[t].url = NullV /\ IsNull(tasks[t].res)
    /\ BagCardinality(results) = Cardinality(downloaded) - 1
    /\ BagCardinality(results) > 0

(***************************************************************************)
(* fetchUrl on its own (part_002:81-133): one call, against an origin that *)
(* answers each of three URLs with 200, with 404, with a 3xx status        *)
(* without a Location header, with a 3xx status and the Location of one of *)
(* the three, or not at all (the request's timeout fires).  call.url is    *)
(* the URL of the request in flight, call.seen the URLs requested so far,  *)
(* call.again whether a URL has been requested a second time, call.odd     *)
(* whether the number of requests made is odd.                             *)
(***************************************************************************)
FetchNodes == {Css1, Css2, Img}

Redirect(to) == [status |-> 302, location |-> to]

Responses ==
    { [status |-> 200, location |-> NullV], [status |-> 404, location |-> NullV],
      [status |-> 301, location |-> NullV], [status |-> 0, location |-> NullV] }
        \cup { Redirect(n) : n \in FetchNodes }

FetchInit ==
    /\ SchedIdle /\ PagesIdle /\ RunIdle
    /\ site = NoSite
    /\ disk = EmptyDisk /\ faults = 0 /\ nFetch = 0
    /\ \E o \in [FetchNodes -> Responses], u \in FetchNodes :
            call = [op |-> "fetch", origin |-> o, url |-> u, seen |-> {u},
                    again |-> FALSE, odd |-> TRUE, st |-> "requesting",
                    error |-> ""]
    /\ ret = << >>

\* The response to the request in flight; status 0 stands for no response.
Response == call.origin[call.url]

\* Lines 101-105: a 3xx response with a Location header.
IsRedirect(res) ==
    res.status >= 300 /\ res.status < 400 /\ ~IsNull(res.location)

\* Lines 101-105: fetchUrl(redirectUrl, options).then(resolve).catch(reject):
\* the promise of this call settles as the call for the new URL settles.
FollowRedirect ==
    /\ call.op = "fetch" /\ call.st = "requesting"
    /\ Response.status # 0 /\ IsRedirect(Response)
    /\ call' = [call EXCEPT !.url = Response.location,
                            !.seen = call.seen \cup {Response.location},
                            !.again = call.again \/ Response.location \in call.seen,
                            !.odd = ~call.odd]
    /\ UNCHANGED <<ret, envVars, schedVars, pageVars, runVars>>

\* Lines 107-110: any other status than 200.
RejectStatus ==
    /\ call.op = "fetch" /\ call.st = "requesting"
    /\ Response.status # 0 /\ ~IsRedirect(Response) /\ Response.status # 200
    /\ call' = [call EXCEPT !.st = "rejected", !.error = "HTTP"]
    /\ UNCHANGED <<ret, envVars, schedVars, pageVars, runVars>>

\* Lines 112-121: status 200, the body is read to its end.
ResolveBody ==
    /\ call.op = "fetch" /\ call.st = "requesting"
    /\ Response.status = 200
    /\ call' = [call EXCEPT !.st = "resolved"]
    /\ ret' = << call.url >>
    /\ UNCHANGED <<envVars, schedVars, pageVars, runVars>>

\* Lines 125-129: the request's timeout fires.
RejectTimeout ==
    /\ call.op = "fetch" /\ call.st = "requesting"
    /\ Response.status = 0
    /\ call' = [call EXCEPT !.st = "rejected", !.error = "Timeout"]
    /\ UNCHANGED <<ret, envVars, schedVars, pageVars, runVars>>

FetchNext == FollowRedirect \/ RejectStatus \/ ResolveBody \/ RejectTimeout

\* Every request gets its response or hits its timeout.
FetchSpec == FetchInit /\ [][FetchNext]_vars /\ WF_vars(FetchNext)

FetchSettled == call.op = "fetch" /\ call.st \in {"resolved", "rejected"}

\* C30: every call of fetchUrl eventually resolves or rejects when each
\* request gets a response or hits its timeout, also against an origin
\* whose redirects form a cycle.
C30_FetchSettles == <>FetchSettled

\* What holds: a call settles unless its redirects lead back to a URL it
\* has requested before.
C30_SettlesOrRevisits == <>(FetchSettled \/ (call.op = "fetch" /\ call.again))

\* a.css redirects to b.css and b.css to a.css: the call that began with
\* a.css is requesting a.css again, and nothing has settled.
C30_RedirectCycle ==
    /\ call.op = "fetch" /\ call.st = "requesting" /\ call.again
    /\ call.url = Css1 /\ call.seen = {Css1, Css2}
    /\ call.origin[Css1] = Redirect(Css2) /\ call.origin[Css2] = Redirect(Css1)

====
